---- MODULE Spec2Model ----
(***************************************************************************)
(* n8n-nodes-zksync: the polling trigger (ZkSyncTrigger.poll) with its     *)
(* cursor store (workflowStaticData), and the action node (ZkSync.execute) *)
(* with its client factory (createZkSyncClient).                           *)
(*                                                                         *)
(* The provider (zkSync JSON-RPC endpoint) is the environment: what it     *)
(* reports (tip, balance, which lookup fails) is an input of every         *)
(* invocation.  A poll invocation runs to completion before the next one   *)
(* starts (the host serialises them), so one invocation is one action.     *)
(***************************************************************************)
EXTENDS Integers, Sequences, FiniteSets

\* ------------------------------------------------------------------ bounds
\* Largest block / batch number the provider reports for the block kinds.
MaxTip == 2
\* Largest balance (in wei) the provider reports.
MaxBalance == 2
\* Event counts per block / batch / hash saturate here (2 = "more than once").
MaxCount == 2
\* The reported batch tips of blockFinalized span SeedBacklog .. SeedBacklog + BatchSpan
\* (and 0): the seeding scan of ten batches needs tips of at least ten.
BatchSpan == 1
\* Largest number of required confirmations configured.
MaxConfirmations == 2
\* Blocks 1..MaxContent hold transactions and logs.
MaxContent == 1
\* Largest number of input items of one execute call.
MaxItems == 2
\* Longest amount string a caller of the unit converter writes out by hand.
MaxAmountLen == 3
\* Largest magnitude of a gas quantity passed to calculateTxCost.
MaxQuantity == 3
\* Largest retry count passed to the receipt retry helper.
MaxRetries == 5
\* Largest number of createZkSyncClient calls of one process.
MaxClients == 3

\* ---------------------------------------------------------------- constants
\* blockFinalized seeds its watermark this many batches behind the tip.
SeedBacklog == 10

\* --------------------------------------------------------------- JS values
\* An absent key of workflowStaticData reads as undefined; a present one holds
\* a value.  Optional values are sequences of length 0 or 1.
Undefined == <<>>
Some(v) == <<v>>
IsDefined(x) == x # Undefined
ValueOf(x) == x[1]

\* JavaScript `stored || fallback` on a number: undefined and 0 are both falsy.
OrElse(stored, fallback) ==
    IF IsDefined(stored) /\ ValueOf(stored) # 0 THEN ValueOf(stored) ELSE fallback

\* BigInt.prototype.toString(): the canonical decimal digits, most significant first.
RECURSIVE toString(_)
toString(n) == IF n < 10 THEN <<n>> ELSE Append(toString(n \div 10), n % 10)

\* BigInt(string) on a canonical decimal string.
RECURSIVE BigInt(_)
BigInt(s) ==
    IF Len(s) = 1 THEN s[1]
    ELSE 10 * BigInt(SubSeq(s, 1, Len(s) - 1)) + s[Len(s)]

\* ------------------------------------------------------------- vocabulary
TriggerKinds ==
    {"newBlock", "newL1Batch", "transactionConfirmed", "ethReceived", "ethSent",
     "tokenTransfer", "nftTransfer", "contractEvent", "blockFinalized", "balanceChange"}
EthKinds == {"ethReceived", "ethSent"}
LogKinds == {"tokenTransfer", "nftTransfer", "contractEvent"}

Tips == 0..MaxTip
BatchTips == {0} \cup (SeedBacklog..(SeedBacklog + BatchSpan))
Batches == 0..(SeedBacklog + BatchSpan)
\* The batches L1 may not have finalized yet, and the one before them: older
\* batches are verified and executed from the start, and their lookups succeed.
RecentBatches == (SeedBacklog - 1)..(SeedBacklog + BatchSpan)
Balances == 0..MaxBalance
Hashes == {"0xh1", "0xh2"}

\* The kinds that scan a range of block or batch numbers above a watermark
\* guarded by `current > last`.
RangeKinds == {"newBlock", "newL1Batch"} \cup EthKinds \cup LogKinds

\* String.prototype.toLowerCase() on the addresses that occur.
toLowerCase(a) ==
    CASE a = "0xAa" -> "0xaa"
      [] a = "0xAA" -> "0xaa"
      [] a = "0xBb" -> "0xbb"
      [] OTHER -> a

\* isValidAddress is ethers.isAddress, on the addresses that occur.
isValidAddress(address) == address \in {"0xAa", "0xAA", "0xBb", "0xaa", "0xbb", "0xcc"}

\* The watched address and the address filters a node can be configured with.
WatchAddress == "0xAa"
WatchAddresses == {WatchAddress, "0xinvalid"}
FilterAddresses == {"", "0xAa", "0xBb", "0xcc"}

\* Transactions of a block as getBlock(n, true) prefetches them; `to` is absent
\* (null) for a contract deployment.
TxReceived == [from |-> "0xbb", to |-> Some("0xAA")]
TxSent == [from |-> "0xaa", to |-> Some("0xbb")]
TxDeploy == [from |-> "0xAa", to |-> Undefined]
TxOther == [from |-> "0xbb", to |-> Some("0xcc")]
BlockShapes == {<<>>, <<TxReceived, TxOther>>, <<TxSent>>, <<TxDeploy, TxReceived>>}

\* A 32-byte topic word holding an address: 24 zero digits, then the 40 hex
\* digits of the address (named here by the address they spell).
AddressTopic(a) == [zeros |-> 24, digits |-> a]
\* '0x' + topic.slice(26): drops "0x" and the 24 zero digits.
SliceAddress(topic) == topic.digits
NumberTopic(n) == [zeros |-> 63, digits |-> n]

\* Logs carrying the Transfer(address,address,uint256) topic, as getLogs returns
\* them (log.topics[k] of the source is topics[k + 1] here): an ERC-20 transfer
\* (3 topics, the value in data), an ERC-721 transfer (4 topics, empty data "0x"),
\* and a Transfer event with no indexed argument.
TransferSig == "Transfer(address,address,uint256)"
LogErc20 ==
    [topics |-> <<TransferSig, AddressTopic("0xaa"), AddressTopic("0xbb")>>, data |-> Some(5)]
LogErc721 ==
    [topics |-> <<TransferSig, AddressTopic("0xcc"), AddressTopic("0xaa"), NumberTopic(7)>>,
     data |-> Undefined]
LogUnindexed == [topics |-> <<TransferSig>>, data |-> Some(5)]
\* The matching logs of one block, in log-index order.
LogShapes == {<<>>, <<LogErc20>>, <<LogErc721, LogErc20>>, <<LogUnindexed, LogErc20>>}

\* The blocks that hold transactions / logs; the others are empty.
ContentBlocks == 1..MaxContent

\* The chains a kind may watch: what each content block holds.
Chains(kind) ==
    IF kind \in EthKinds THEN [ContentBlocks -> BlockShapes]
    ELSE IF kind \in LogKinds THEN [ContentBlocks -> LogShapes]
    ELSE {<<>>}

VARIABLES
    triggerOn,           \* node parameter 'triggerOn' of this trigger node
    workflowStaticData,  \* the cursor store, getWorkflowStaticData('node')
    chain,               \* provider: the transactions / logs of the content blocks
    verifiedUpTo,        \* provider: batches <= this have status 'verified'
    executedUpTo,        \* provider: batches <= this carry an executeTxHash
    lastPoll,            \* history: the latest poll invocation
    seenTip,             \* history: tip / balance seen by the latest completed invocation
    emitCount,           \* history: events returned to the host, per block / batch number
    txEmitCount,         \* history: events returned to the host, per transaction hash
    owed,                \* history: units of ranges whose scan threw
    firstWatermark,      \* history: the watermark stored by the first invocation
    steady,              \* history: no throw, no missing block, tips non-decreasing so far
    lastInput,           \* history: node parameters and provider answers of the latest poll
    pollClock,           \* history: the parity of the poll count, where it is observed
    balanceTrail,        \* history: the balanceChange events returned so far, summed up
    licensingNoticeLogged,  \* module variable of transport/zksyncClient.ts
    lastExecute,         \* history: the execute call in progress, its inputs and its outcome
    lastUtility,         \* history: the utility call in progress, its inputs and its outcome
    retry,               \* the getTransactionReceipt helper call in progress
    clientCalls,         \* the createZkSyncClient calls of the process, each at its await
    noticesLogged        \* history: how often the licensing notice was printed

pollVars ==
    <<triggerOn, workflowStaticData, chain, verifiedUpTo, executedUpTo, lastPoll, seenTip,
      emitCount, txEmitCount, owed, firstWatermark, steady, lastInput, pollClock,
      balanceTrail>>
execVars == <<licensingNoticeLogged, lastExecute>>
utilVars == <<lastUtility>>
transportVars == <<retry, clientCalls, noticesLogged>>
vars == <<pollVars, execVars, utilVars, transportVars>>

\* The empty cursor store: every key absent.
EmptyStaticData ==
    [ lastBlock |-> Undefined,
      lastL1Batch |-> Undefined,
      lastCheckedBlock |-> Undefined,
      lastTokenBlock |-> Undefined,
      lastNftBlock |-> Undefined,
      lastEventBlock |-> Undefined,
      lastFinalizedBatch |-> Undefined,
      lastBalance |-> Undefined,
      tx |-> {},               \* hashes h with tx_<h> = true
      batch_executed |-> {} ]  \* numbers n with batch_executed_<n> = true

\* The numeric watermark a kind keeps (Undefined when the kind keeps none).
WatermarkOf(kind, data) ==
    CASE kind = "newBlock" -> data.lastBlock
      [] kind = "newL1Batch" -> data.lastL1Batch
      [] kind \in EthKinds -> data.lastCheckedBlock
      [] kind = "tokenTransfer" -> data.lastTokenBlock
      [] kind = "nftTransfer" -> data.lastNftBlock
      [] kind = "contractEvent" -> data.lastEventBlock
      [] kind = "blockFinalized" -> data.lastFinalizedBatch
      [] OTHER -> Undefined

\* One request to the provider: the method and its numeric argument (0 when none).
Call(method, arg) == [method |-> method, arg |-> arg]

\* What an invocation hands back: whether it threw, the store it leaves, the events
\* it returns to the host, and the provider requests it issued, in order.
Returned(data, returnData, asked) ==
    [threw |-> FALSE, data |-> data, returnData |-> returnData, asked |-> asked]
Thrown(data, asked) ==
    [threw |-> TRUE, data |-> data, returnData |-> <<>>, asked |-> asked]

\* ------------------------------------------------------------ poll: newBlock
\* The for loop of case 'newBlock': one getBlock per number, a push per block found.
\* `failing` are the numbers whose lookup throws, `missing` those answered by null.
RECURSIVE NewBlockLoop(_, _, _, _, _)
NewBlockLoop(blockNum, currentBlock, st, failing, missing) ==
    IF blockNum > currentBlock THEN st
    ELSE
      LET asked == Append(st.asked, Call("getBlock", blockNum)) IN
      IF blockNum \in failing THEN [st EXCEPT !.threw = TRUE, !.asked = asked]
      ELSE NewBlockLoop(
              blockNum + 1, currentBlock,
              [st EXCEPT !.asked = asked,
                         !.returnData =
                            IF blockNum \in missing THEN @
                            ELSE Append(@, [type |-> "newBlock", id |-> blockNum])],
              failing, missing)

\* NewBlockPoll with the first-run default off by one: the watermark of an empty store
\* defaults to the tip itself, so the first invocation scans nothing.
NewBlockPollSeedsAtTip(data, currentBlock, tipFails, failing, missing) ==
    LET asked == <<Call("getBlockNumber", 0)>> IN
    IF tipFails THEN Thrown(data, asked)
    ELSE
      LET lastBlock == OrElse(data.lastBlock, currentBlock) IN
      IF currentBlock > lastBlock
      THEN LET loop == NewBlockLoop(lastBlock + 1, currentBlock,
                                    Returned(data, <<>>, asked), failing, missing) IN
           IF loop.threw THEN Thrown(data, loop.asked)
           ELSE Returned([data EXCEPT !.lastBlock = Some(currentBlock)],
                         loop.returnData, loop.asked)
      ELSE Returned(data, <<>>, asked)

NewBlockPoll(data, currentBlock, tipFails, failing, missing) ==
    LET asked == <<Call("getBlockNumber", 0)>> IN
    IF tipFails THEN Thrown(data, asked)
    ELSE
      LET lastBlock == OrElse(data.lastBlock, currentBlock - 1) IN
      IF currentBlock > lastBlock
      THEN LET loop == NewBlockLoop(lastBlock + 1, currentBlock,
                                    Returned(data, <<>>, asked), failing, missing) IN
           IF loop.threw THEN Thrown(data, loop.asked)
           ELSE Returned([data EXCEPT !.lastBlock = Some(currentBlock)],
                         loop.returnData, loop.asked)
      ELSE Returned(data, <<>>, asked)

\* ---------------------------------------------------------- poll: newL1Batch
\* The for loop of case 'newL1Batch': the details of every batch are pushed unchecked
\* (a lookup that returns nothing makes `details.number` throw: it is in `failing`).
RECURSIVE NewL1BatchLoop(_, _, _, _)
NewL1BatchLoop(batchNum, currentBatch, st, failing) ==
    IF batchNum > currentBatch THEN st
    ELSE
      LET asked == Append(st.asked, Call("getL1BatchDetails", batchNum)) IN
      IF batchNum \in failing THEN [st EXCEPT !.threw = TRUE, !.asked = asked]
      ELSE NewL1BatchLoop(
              batchNum + 1, currentBatch,
              [st EXCEPT !.asked = asked,
                         !.returnData = Append(@, [type |-> "newL1Batch", id |-> batchNum])],
              failing)

NewL1BatchPoll(data, currentBatch, tipFails, failing) ==
    LET asked == <<Call("getL1BatchNumber", 0)>> IN
    IF tipFails THEN Thrown(data, asked)
    ELSE
      LET lastBatch == OrElse(data.lastL1Batch, currentBatch - 1) IN
      IF currentBatch > lastBatch
      THEN LET loop == NewL1BatchLoop(lastBatch + 1, currentBatch,
                                      Returned(data, <<>>, asked), failing) IN
           IF loop.threw THEN Thrown(data, loop.asked)
           ELSE Returned([data EXCEPT !.lastL1Batch = Some(currentBatch)],
                         loop.returnData, loop.asked)
      ELSE Returned(data, <<>>, asked)

\* A variant that counts the blocks after the transaction's block only.
TransactionConfirmedPollOffByOne(data, txHash, requiredConfirmations, receipt, currentBlock, fault) ==
    IF txHash \in data.tx THEN Returned(data, <<>>, <<>>)
    ELSE IF fault = "receipt" THEN Thrown(data, <<Call("getTransactionReceipt", 0)>>)
    ELSE IF ~IsDefined(receipt) \/ ValueOf(receipt) = 0
    THEN Returned(data, <<>>, <<Call("getTransactionReceipt", 0)>>)
    ELSE
      LET asked == <<Call("getTransactionReceipt", 0), Call("getBlockNumber", 0)>>
          confirmations == currentBlock - ValueOf(receipt)
      IN  IF fault = "tip" THEN Thrown(data, asked)
          ELSE IF confirmations >= requiredConfirmations
          THEN Returned([data EXCEPT !.tx = @ \cup {txHash}],
                        <<[type |-> "transactionConfirmed", id |-> txHash,
                           confirmations |-> confirmations]>>,
                        asked)
          ELSE Returned(data, <<>>, asked)

\* ------------------------------------------------ poll: transactionConfirmed
\* `receipt` is what getTransactionReceipt answers: Undefined (null) or the block
\* number of the receipt.  `receipt && receipt.blockNumber` is falsy for block 0.
TransactionConfirmedPoll(data, txHash, requiredConfirmations, receipt, currentBlock, fault) ==
    LET alreadyTriggered == txHash \in data.tx IN
    IF alreadyTriggered THEN Returned(data, <<>>, <<>>)
    ELSE
      LET asked1 == <<Call("getTransactionReceipt", 0)>> IN
      IF fault = "receipt" THEN Thrown(data, asked1)
      ELSE IF IsDefined(receipt) /\ ValueOf(receipt) # 0
      THEN LET asked2 == Append(asked1, Call("getBlockNumber", 0)) IN
           IF fault = "tip" THEN Thrown(data, asked2)
           ELSE
             LET confirmations == currentBlock - ValueOf(receipt) + 1 IN
             IF confirmations >= requiredConfirmations
             THEN Returned([data EXCEPT !.tx = @ \cup {txHash}],
                           <<[type |-> "transactionConfirmed", id |-> txHash,
                              confirmations |-> confirmations]>>,
                           asked2)
             ELSE Returned(data, <<>>, asked2)
      ELSE Returned(data, <<>>, asked1)

\* ------------------------------------------------ poll: ethReceived / ethSent
\* The transactions the provider holds for block n.
TransactionsOf(blocks, n) == IF n \in DOMAIN blocks THEN blocks[n] ELSE <<>>

\* A variant of the inner loop that takes a match in either direction.
RECURSIVE EthTransactionLoopEitherWay(_, _, _, _, _, _)
EthTransactionLoopEitherWay(i, txs, blockNum, returnData, kind, watchAddress) ==
    IF i > Len(txs) THEN returnData
    ELSE
      LET tx == txs[i]
          isReceived == IsDefined(tx.to)
                          /\ toLowerCase(ValueOf(tx.to)) = toLowerCase(watchAddress)
          isSent == toLowerCase(tx.from) = toLowerCase(watchAddress)
      IN
      EthTransactionLoopEitherWay(
          i + 1, txs, blockNum,
          IF isReceived \/ isSent
          THEN Append(returnData,
                      [type |-> IF kind = "ethReceived" THEN "received" ELSE "sent",
                       id |-> blockNum, index |-> i, from |-> tx.from, to |-> tx.to])
          ELSE returnData,
          kind, watchAddress)

\* The inner loop over block.prefetchedTransactions.
RECURSIVE EthTransactionLoop(_, _, _, _, _, _)
EthTransactionLoop(i, txs, blockNum, returnData, kind, watchAddress) ==
    IF i > Len(txs) THEN returnData
    ELSE
      LET tx == txs[i]
          isReceived == IsDefined(tx.to)
                          /\ toLowerCase(ValueOf(tx.to)) = toLowerCase(watchAddress)
          isSent == toLowerCase(tx.from) = toLowerCase(watchAddress)
      IN
      EthTransactionLoop(
          i + 1, txs, blockNum,
          IF (kind = "ethReceived" /\ isReceived) \/ (kind = "ethSent" /\ isSent)
          THEN Append(returnData,
                      [type |-> IF kind = "ethReceived" THEN "received" ELSE "sent",
                       id |-> blockNum, index |-> i, from |-> tx.from, to |-> tx.to])
          ELSE returnData,
          kind, watchAddress)

RECURSIVE EthBlockLoop(_, _, _, _, _, _, _, _)
EthBlockLoop(blockNum, currentBlock, st, failing, missing, kind, watchAddress, blocks) ==
    IF blockNum > currentBlock THEN st
    ELSE
      LET asked == Append(st.asked, Call("getBlock", blockNum)) IN
      IF blockNum \in failing THEN [st EXCEPT !.threw = TRUE, !.asked = asked]
      ELSE EthBlockLoop(
              blockNum + 1, currentBlock,
              [st EXCEPT !.asked = asked,
                         !.returnData =
                            IF blockNum \in missing THEN @
                            ELSE EthTransactionLoop(1, TransactionsOf(blocks, blockNum),
                                                    blockNum, @, kind, watchAddress)],
              failing, missing, kind, watchAddress, blocks)

EthTransferPoll(data, kind, watchAddress, currentBlock, tipFails, failing, missing, blocks) ==
    IF ~isValidAddress(watchAddress) THEN Thrown(data, <<>>)
    ELSE
      LET asked == <<Call("getBlockNumber", 0)>> IN
      IF tipFails THEN Thrown(data, asked)
      ELSE
        LET lastCheckedBlock == OrElse(data.lastCheckedBlock, currentBlock - 1) IN
        IF currentBlock > lastCheckedBlock
        THEN LET loop == EthBlockLoop(lastCheckedBlock + 1, currentBlock,
                                      Returned(data, <<>>, asked), failing, missing,
                                      kind, watchAddress, blocks) IN
             IF loop.threw THEN Thrown(data, loop.asked)
             ELSE Returned([data EXCEPT !.lastCheckedBlock = Some(currentBlock)],
                           loop.returnData, loop.asked)
        ELSE Returned(data, <<>>, asked)

\* ------------------------------------------------------------ poll: the logs
\* provider.getLogs({fromBlock, toBlock}): the logs of the blocks in the range, in
\* ascending block order, each with its block number.
LogsOf(logs, n) ==
    IF n \in DOMAIN logs
    THEN [i \in 1..Len(logs[n]) |-> [log |-> logs[n][i], blockNumber |-> n, index |-> i]]
    ELSE <<>>

RECURSIVE GetLogs(_, _, _)
GetLogs(logs, fromBlock, toBlock) ==
    IF fromBlock > toBlock THEN <<>>
    ELSE LogsOf(logs, fromBlock) \o GetLogs(logs, fromBlock + 1, toBlock)

\* A variant of tokenTransfer's loop whose filter looks at the recipient only.
RECURSIVE TokenLogLoopRecipientOnly(_, _, _, _)
TokenLogLoopRecipientOnly(i, logs, returnData, filterAddress) ==
    IF i > Len(logs) THEN [threw |-> FALSE, returnData |-> returnData]
    ELSE
      LET log == logs[i].log IN
      IF Len(log.topics) < 3 \/ ~IsDefined(log.data)
      THEN [threw |-> TRUE, returnData |-> <<>>]
      ELSE
        LET from == SliceAddress(log.topics[2])
            to == SliceAddress(log.topics[3])
            filtered == /\ filterAddress # ""
                        /\ toLowerCase(to) # toLowerCase(filterAddress)
        IN
        TokenLogLoopRecipientOnly(
            i + 1, logs,
            IF filtered THEN returnData
            ELSE Append(returnData,
                        [type |-> "tokenTransfer", id |-> logs[i].blockNumber,
                         index |-> logs[i].index,
                         from |-> from, to |-> to, value |-> ValueOf(log.data)]),
            filterAddress)

\* tokenTransfer's loop over the logs.  log.topics[1].slice and log.topics[2].slice
\* throw a TypeError when the topic is absent; BigInt("0x") throws a SyntaxError.
RECURSIVE TokenLogLoop(_, _, _, _)
TokenLogLoop(i, logs, returnData, filterAddress) ==
    IF i > Len(logs) THEN [threw |-> FALSE, returnData |-> returnData]
    ELSE
      LET log == logs[i].log IN
      IF Len(log.topics) < 3 \/ ~IsDefined(log.data)
      THEN [threw |-> TRUE, returnData |-> <<>>]
      ELSE
        LET from == SliceAddress(log.topics[2])
            to == SliceAddress(log.topics[3])
            value == ValueOf(log.data)
            filtered == /\ filterAddress # ""
                        /\ toLowerCase(from) # toLowerCase(filterAddress)
                        /\ toLowerCase(to) # toLowerCase(filterAddress)
        IN
        TokenLogLoop(
            i + 1, logs,
            IF filtered THEN returnData
            ELSE Append(returnData,
                        [type |-> "tokenTransfer", id |-> logs[i].blockNumber,
                         index |-> logs[i].index,
                         from |-> from, to |-> to, value |-> value]),
            filterAddress)

TokenTransferPoll(data, filterAddress, currentBlock, tipFails, logsFail, logs) ==
    LET asked == <<Call("getBlockNumber", 0)>> IN
    IF tipFails THEN Thrown(data, asked)
    ELSE
      LET lastCheckedBlock == OrElse(data.lastTokenBlock, currentBlock - 1) IN
      IF currentBlock > lastCheckedBlock
      THEN LET asked2 == Append(asked, Call("getLogs", lastCheckedBlock + 1)) IN
           IF logsFail THEN Thrown(data, asked2)
           ELSE
             LET loop == TokenLogLoop(1, GetLogs(logs, lastCheckedBlock + 1, currentBlock),
                                      <<>>, filterAddress) IN
             IF loop.threw THEN Thrown(data, asked2)
             ELSE Returned([data EXCEPT !.lastTokenBlock = Some(currentBlock)],
                           loop.returnData, asked2)
      ELSE Returned(data, <<>>, asked)

\* nftTransfer's loop: a log with fewer than 4 topics is passed over.
RECURSIVE NftLogLoop(_, _, _, _)
NftLogLoop(i, logs, returnData, filterAddress) ==
    IF i > Len(logs) THEN returnData
    ELSE
      LET log == logs[i].log IN
      IF Len(log.topics) >= 4
      THEN
        LET from == SliceAddress(log.topics[2])
            to == SliceAddress(log.topics[3])
            tokenId == log.topics[4].digits
            filtered == /\ filterAddress # ""
                        /\ toLowerCase(from) # toLowerCase(filterAddress)
                        /\ toLowerCase(to) # toLowerCase(filterAddress)
        IN
        NftLogLoop(
            i + 1, logs,
            IF filtered THEN returnData
            ELSE Append(returnData,
                        [type |-> "nftTransfer", id |-> logs[i].blockNumber,
                         index |-> logs[i].index,
                         from |-> from, to |-> to, tokenId |-> tokenId]),
            filterAddress)
      ELSE NftLogLoop(i + 1, logs, returnData, filterAddress)

NftTransferPoll(data, filterAddress, currentBlock, tipFails, logsFail, logs) ==
    LET asked == <<Call("getBlockNumber", 0)>> IN
    IF tipFails THEN Thrown(data, asked)
    ELSE
      LET lastCheckedBlock == OrElse(data.lastNftBlock, currentBlock - 1) IN
      IF currentBlock > lastCheckedBlock
      THEN LET asked2 == Append(asked, Call("getLogs", lastCheckedBlock + 1)) IN
           IF logsFail THEN Thrown(data, asked2)
           ELSE Returned([data EXCEPT !.lastNftBlock = Some(currentBlock)],
                         NftLogLoop(1, GetLogs(logs, lastCheckedBlock + 1, currentBlock),
                                    <<>>, filterAddress),
                         asked2)
      ELSE Returned(data, <<>>, asked)

\* iface.parseLog against the default event ABI
\* 'event Transfer(address indexed from, address indexed to, uint256 value)':
\* it throws unless the log has the two indexed topics and a data word.
ParseLogThrows(log) == Len(log.topics) # 3 \/ ~IsDefined(log.data)

\* A variant of contractEvent's loop that ends at the first log it cannot decode.
RECURSIVE ContractLogLoopStopsAtFailure(_, _, _)
ContractLogLoopStopsAtFailure(i, logs, returnData) ==
    IF i > Len(logs) \/ ParseLogThrows(logs[i].log) THEN returnData
    ELSE ContractLogLoopStopsAtFailure(
            i + 1, logs,
            Append(returnData,
                   [type |-> "contractEvent", id |-> logs[i].blockNumber,
                    index |-> logs[i].index, eventName |-> "Transfer"]))

\* contractEvent's loop: a log whose decoding throws is passed over (the catch).
RECURSIVE ContractLogLoop(_, _, _)
ContractLogLoop(i, logs, returnData) ==
    IF i > Len(logs) THEN returnData
    ELSE ContractLogLoop(
            i + 1, logs,
            IF ParseLogThrows(logs[i].log) THEN returnData
            ELSE Append(returnData,
                        [type |-> "contractEvent", id |-> logs[i].blockNumber,
                         index |-> logs[i].index,
                         eventName |-> "Transfer"]))

\* `eventAbi` is the node parameter: "event" an event fragment, "function" an ABI
\* without an event fragment, "invalid" a string new ethers.Interface rejects.
ContractEventPoll(data, eventAbi, currentBlock, tipFails, logsFail, logs) ==
    LET asked == <<Call("getBlockNumber", 0)>> IN
    IF tipFails THEN Thrown(data, asked)
    ELSE
      LET lastCheckedBlock == OrElse(data.lastEventBlock, currentBlock - 1)
          stored == [data EXCEPT !.lastEventBlock = Some(currentBlock)]
      IN
      IF currentBlock > lastCheckedBlock
      THEN IF eventAbi = "invalid" THEN Thrown(data, asked)
           ELSE IF eventAbi = "function" THEN Returned(stored, <<>>, asked)
           ELSE
             LET asked2 == Append(asked, Call("getLogs", lastCheckedBlock + 1)) IN
             IF logsFail THEN Thrown(data, asked2)
             ELSE Returned(stored,
                           ContractLogLoop(
                               1, GetLogs(logs, lastCheckedBlock + 1, currentBlock), <<>>),
                           asked2)
      ELSE Returned(data, <<>>, asked)

\* ------------------------------------------------------ poll: blockFinalized
\* getL1BatchDetails(n): the endpoint rejects a negative batch number, so that
\* lookup throws like one in `failing`.  The store is written inside the loop.
\* BlockFinalizedLoop without the latch test: `!wasExecuted` is dropped from the
\* condition, the latch is still written.
RECURSIVE BlockFinalizedLoopIgnoresLatch(_, _, _, _, _, _)
BlockFinalizedLoopIgnoresLatch(batchNum, currentBatch, st, failing, verified, executed) ==
    IF batchNum > currentBatch THEN st
    ELSE
      LET asked == Append(st.asked, Call("getL1BatchDetails", batchNum)) IN
      IF batchNum < 0 \/ batchNum \in failing
      THEN [st EXCEPT !.threw = TRUE, !.asked = asked]
      ELSE
        LET statusVerified == batchNum <= verified
            executeTxHash == batchNum <= executed
        IN
        BlockFinalizedLoopIgnoresLatch(
            batchNum + 1, currentBatch,
            IF statusVerified /\ executeTxHash
            THEN [st EXCEPT !.asked = asked,
                            !.returnData =
                                Append(@, [type |-> "blockFinalized", id |-> batchNum]),
                            !.data.batch_executed = @ \cup {batchNum}]
            ELSE [st EXCEPT !.asked = asked],
            failing, verified, executed)

RECURSIVE BlockFinalizedLoop(_, _, _, _, _, _)
BlockFinalizedLoop(batchNum, currentBatch, st, failing, verified, executed) ==
    IF batchNum > currentBatch THEN st
    ELSE
      LET asked == Append(st.asked, Call("getL1BatchDetails", batchNum)) IN
      IF batchNum < 0 \/ batchNum \in failing
      THEN [st EXCEPT !.threw = TRUE, !.asked = asked]
      ELSE
        LET wasExecuted == batchNum \in st.data.batch_executed
            statusVerified == batchNum <= verified
            executeTxHash == batchNum <= executed
        IN
        BlockFinalizedLoop(
            batchNum + 1, currentBatch,
            IF statusVerified /\ executeTxHash /\ ~wasExecuted
            THEN [st EXCEPT !.asked = asked,
                            !.returnData =
                                Append(@, [type |-> "blockFinalized", id |-> batchNum]),
                            !.data.batch_executed = @ \cup {batchNum}]
            ELSE [st EXCEPT !.asked = asked],
            failing, verified, executed)

BlockFinalizedPoll(data, currentBatch, tipFails, failing, verified, executed) ==
    LET asked == <<Call("getL1BatchNumber", 0)>> IN
    IF tipFails THEN Thrown(data, asked)
    ELSE
      LET lastCheckedBatch == OrElse(data.lastFinalizedBatch, currentBatch - SeedBacklog)
          loop == BlockFinalizedLoop(lastCheckedBatch + 1, currentBatch,
                                     Returned(data, <<>>, asked),
                                     failing, verified, executed)
      IN
      IF loop.threw THEN Thrown(loop.data, loop.asked)
      ELSE Returned([loop.data EXCEPT !.lastFinalizedBatch = Some(currentBatch)],
                    loop.returnData, loop.asked)

\* A variant that stores the snapshot once and measures every change from it.
BalanceChangePollKeepsFirstSnapshot(data, watchAddress, currentBalance, balanceFails) ==
    IF ~isValidAddress(watchAddress) THEN Thrown(data, <<>>)
    ELSE IF balanceFails THEN Thrown(data, <<Call("getBalance", 0)>>)
    ELSE IF ~IsDefined(data.lastBalance)
    THEN Returned([data EXCEPT !.lastBalance = Some(toString(currentBalance))], <<>>,
                  <<Call("getBalance", 0)>>)
    ELSE
      LET change == currentBalance - BigInt(ValueOf(data.lastBalance)) IN
      Returned(data,
               IF change = 0 THEN <<>>
               ELSE <<[type |-> "balanceChange", id |-> 0,
                       previousBalanceWei |-> ValueOf(data.lastBalance),
                       currentBalanceWei |-> toString(currentBalance),
                       changeWei |-> change,
                       direction |-> IF change > 0 THEN "increase" ELSE "decrease"]>>,
               <<Call("getBalance", 0)>>)

\* A variant that emits on the first invocation too, measuring the change from zero.
BalanceChangePollFromZero(data, watchAddress, currentBalance, balanceFails) ==
    IF ~isValidAddress(watchAddress) THEN Thrown(data, <<>>)
    ELSE IF balanceFails THEN Thrown(data, <<Call("getBalance", 0)>>)
    ELSE
      LET previous == IF IsDefined(data.lastBalance) THEN ValueOf(data.lastBalance)
                      ELSE toString(0)
          change == currentBalance - BigInt(previous)
      IN  Returned([data EXCEPT !.lastBalance = Some(toString(currentBalance))],
                   IF change = 0 THEN <<>>
                   ELSE <<[type |-> "balanceChange", id |-> 0,
                           previousBalanceWei |-> previous,
                           currentBalanceWei |-> toString(currentBalance),
                           changeWei |-> change,
                           direction |-> IF change > 0 THEN "increase" ELSE "decrease"]>>,
                   <<Call("getBalance", 0)>>)

\* ------------------------------------------------------- poll: balanceChange
BalanceChangePoll(data, watchAddress, currentBalance, balanceFails) ==
    IF ~isValidAddress(watchAddress) THEN Thrown(data, <<>>)
    ELSE
      LET asked == <<Call("getBalance", 0)>> IN
      IF balanceFails THEN Thrown(data, asked)
      ELSE
        LET lastBalance == data.lastBalance
            stored == [data EXCEPT !.lastBalance = Some(toString(currentBalance))]
        IN
        IF IsDefined(lastBalance) /\ toString(currentBalance) # ValueOf(lastBalance)
        THEN LET previousBalance == BigInt(ValueOf(lastBalance))
                 change == currentBalance - previousBalance
             IN Returned(stored,
                         <<[type |-> "balanceChange", id |-> 0,
                            previousBalanceWei |-> ValueOf(lastBalance),
                            currentBalanceWei |-> toString(currentBalance),
                            changeWei |-> change,
                            direction |-> IF change > 0 THEN "increase" ELSE "decrease"]>>,
                         asked)
        ELSE Returned(stored, <<>>, asked)

\* ------------------------------------------------------------------ history
Bump(count, returnData, byHash) ==
    [k \in DOMAIN count |->
        LET n == Cardinality({i \in 1..Len(returnData) :
                                /\ returnData[i].type \in
                                     (IF byHash THEN {"transactionConfirmed"}
                                      ELSE {"newBlock", "newL1Batch", "blockFinalized"})
                                /\ returnData[i].id = k}) IN
        IF count[k] + n > MaxCount THEN MaxCount ELSE count[k] + n]

\* The units of the range (W, C] of an invocation that threw, W the stored watermark.
OwedBy(kind, before, tip, threw) ==
    IF threw /\ kind \in RangeKinds /\ IsDefined(WatermarkOf(kind, before))
    THEN (ValueOf(WatermarkOf(kind, before)) + 1)..tip
    ELSE {}

\* The units a completed invocation looked at.
Scanned(kind, before, tip) ==
    IF kind \in RangeKinds
    THEN (OrElse(WatermarkOf(kind, before), tip - 1) + 1)..tip
    ELSE {}

\* The balanceChange events returned to the host so far: the snapshot that the first
\* completed invocation stored, the currentBalanceWei of the latest event, whether
\* every event started from the balance its predecessor ended with (the first one
\* from the first snapshot), and the sum of changeWei (kept within the bounds).
NoTrail == [first |-> Undefined, latest |-> Undefined, chained |-> TRUE, sum |-> 0]

WithinTrail(n) ==
    IF n > MaxBalance + 1 THEN MaxBalance + 1
    ELSE IF n < 0 - (MaxBalance + 1) THEN 0 - (MaxBalance + 1)
    ELSE n

RECURSIVE Trail(_, _, _)
Trail(trail, returnData, i) ==
    IF i > Len(returnData) THEN trail
    ELSE
      LET event == returnData[i]
          expected == IF IsDefined(trail.latest) THEN trail.latest ELSE trail.first
      IN
      IF event.type # "balanceChange" THEN Trail(trail, returnData, i + 1)
      ELSE Trail([ first |-> trail.first,
                   latest |-> Some(event.currentBalanceWei),
                   chained |-> trail.chained /\ expected = Some(event.previousBalanceWei),
                   sum |-> WithinTrail(trail.sum + event.changeWei) ],
                 returnData, i + 1)

\* One invocation of poll(): `seen` is the tip or balance the provider reported
\* (Undefined when that very lookup threw), `clean` is FALSE when the provider
\* returned no block for some number.
Invocation(result, seen, clean) ==
    /\ workflowStaticData' = result.data
    /\ lastPoll' =
         [ n |-> IF lastPoll.n = 0 THEN 1 ELSE 2,
           threw |-> result.threw,
           seen |-> seen,
           prevSeen |-> seenTip,
           returnData |-> result.returnData,
           asked |-> result.asked ]
    /\ seenTip' = IF result.threw THEN seenTip ELSE seen
    /\ emitCount' =
         IF result.threw THEN emitCount ELSE Bump(emitCount, result.returnData, FALSE)
    /\ txEmitCount' =
         IF result.threw THEN txEmitCount ELSE Bump(txEmitCount, result.returnData, TRUE)
    /\ owed' =
         IF IsDefined(seen)
         THEN IF result.threw
              THEN owed \cup OwedBy(triggerOn, workflowStaticData, ValueOf(seen), TRUE)
              ELSE owed \ Scanned(triggerOn, workflowStaticData, ValueOf(seen))
         ELSE owed
    /\ firstWatermark' =
         IF lastPoll.n = 0 THEN WatermarkOf(triggerOn, result.data) ELSE firstWatermark
    /\ steady' =
         /\ steady
         /\ ~result.threw
         /\ clean
         /\ (IsDefined(seenTip) /\ IsDefined(seen)) => ValueOf(seenTip) <= ValueOf(seen)
    /\ balanceTrail' =
         IF result.threw \/ triggerOn # "balanceChange" THEN balanceTrail
         ELSE LET trail == Trail(balanceTrail, result.returnData, 1) IN
              IF IsDefined(trail.first) THEN trail
              ELSE [trail EXCEPT !.first = result.data.lastBalance]
    /\ pollClock' = IF IsDefined(pollClock) THEN Some(1 - ValueOf(pollClock)) ELSE Undefined
    /\ UNCHANGED <<triggerOn, chain, verifiedUpTo, executedUpTo, execVars, utilVars,
                   transportVars>>


\* ------------------------------------------------------------------ actions
\* What the provider does during one invocation that scans numbers up to a tip:
\* the tip lookup throws; or it reports `tip` and every lookup succeeds ("none"),
\* the lookup of number `at` throws ("lookup"), or getBlock(at) returns null ("missing").
ProviderRuns(tips, faults, places) ==
    {[fault |-> "tip", tip |-> 0, at |-> 0]}
    \cup {[fault |-> "none", tip |-> t, at |-> 0] : t \in tips}
    \cup {r \in [fault : faults, tip : tips, at : places] : r.at <= r.tip}

Failing(rpc) == IF rpc.fault = "lookup" THEN {rpc.at} ELSE {}
Missing(rpc) == IF rpc.fault = "missing" THEN {rpc.at} ELSE {}
SeenTip(rpc) == IF rpc.fault = "tip" THEN Undefined ELSE Some(rpc.tip)

\* The node parameters an invocation read and the answers the provider gave it.
NoInput == [kind |-> "none"]

PollNewBlock ==
    /\ triggerOn = "newBlock"
    /\ lastInput' = NoInput
    /\ \E rpc \in ProviderRuns(Tips, {"lookup", "missing"}, Tips) :
         Invocation(
            NewBlockPoll(workflowStaticData, rpc.tip, rpc.fault = "tip",
                         Failing(rpc), Missing(rpc)),
            SeenTip(rpc), rpc.fault # "missing")

PollNewL1Batch ==
    /\ triggerOn = "newL1Batch"
    /\ lastInput' = NoInput
    /\ \E rpc \in ProviderRuns(Tips, {"lookup"}, Tips) :
         Invocation(
            NewL1BatchPoll(workflowStaticData, rpc.tip, rpc.fault = "tip", Failing(rpc)),
            SeenTip(rpc), TRUE)

\* The receipt the provider returns: none yet, or one with the number of the block
\* that holds the transaction.  The genesis block holds no transaction.
Receipts == {Undefined} \cup {Some(b) : b \in Tips \ {0}}

PollTransactionConfirmed ==
    /\ triggerOn = "transactionConfirmed"
    /\ \E txHash \in Hashes, requiredConfirmations \in 1..MaxConfirmations,
          receipt \in Receipts,
          currentBlock \in Tips, fault \in {"none", "receipt", "tip"} :
         \* requests that are not made have no answer: one run stands for all
         /\ fault = "receipt" => ~IsDefined(receipt)
         /\ (~IsDefined(receipt) \/ fault = "tip") => currentBlock = 0
         /\ lastInput' =
              [ kind |-> triggerOn, txHash |-> txHash,
                requiredConfirmations |-> requiredConfirmations, receipt |-> receipt,
                currentBlock |-> currentBlock, fault |-> fault ]
         /\ Invocation(
            TransactionConfirmedPoll(workflowStaticData, txHash, requiredConfirmations,
                                     receipt, currentBlock, fault),
            Undefined, TRUE)

PollEthTransfer ==
    /\ triggerOn \in EthKinds
    /\ \E rpc \in ProviderRuns(Tips, {"lookup", "missing"}, Tips),
          watchAddress \in WatchAddresses :
         \* the provider is not consulted for an invalid address: one run stands for all
         /\ isValidAddress(watchAddress) \/ rpc.fault = "tip"
         /\ lastInput' =
              [kind |-> triggerOn, watchAddress |-> watchAddress, missing |-> Missing(rpc)]
         /\ Invocation(
            EthTransferPoll(workflowStaticData, triggerOn, watchAddress, rpc.tip,
                            rpc.fault = "tip", Failing(rpc), Missing(rpc), chain),
            IF isValidAddress(watchAddress) THEN SeenTip(rpc) ELSE Undefined,
            rpc.fault # "missing")

PollTokenTransfer ==
    /\ triggerOn = "tokenTransfer"
    /\ \E rpc \in ProviderRuns(Tips, {"lookup"}, {0}), filterAddress \in FilterAddresses :
         /\ lastInput' =
              [kind |-> triggerOn, filterAddress |-> filterAddress, fault |-> rpc.fault]
         /\ Invocation(
            TokenTransferPoll(workflowStaticData, filterAddress, rpc.tip,
                              rpc.fault = "tip", rpc.fault = "lookup", chain),
            SeenTip(rpc), TRUE)

PollNftTransfer ==
    /\ triggerOn = "nftTransfer"
    /\ \E rpc \in ProviderRuns(Tips, {"lookup"}, {0}), filterAddress \in FilterAddresses :
         /\ lastInput' = [kind |-> triggerOn, filterAddress |-> filterAddress]
         /\ Invocation(
            NftTransferPoll(workflowStaticData, filterAddress, rpc.tip,
                            rpc.fault = "tip", rpc.fault = "lookup", chain),
            SeenTip(rpc), TRUE)

PollContractEvent ==
    /\ triggerOn = "contractEvent"
    /\ \E rpc \in ProviderRuns(Tips, {"lookup"}, {0}),
          eventAbi \in {"event", "function", "invalid"} :
         /\ lastInput' = [kind |-> triggerOn, eventAbi |-> eventAbi]
         /\ Invocation(
            ContractEventPoll(workflowStaticData, eventAbi, rpc.tip,
                              rpc.fault = "tip", rpc.fault = "lookup", chain),
            SeenTip(rpc), TRUE)

PollBlockFinalized ==
    /\ triggerOn = "blockFinalized"
    /\ \E rpc \in ProviderRuns(BatchTips, {"lookup"}, RecentBatches) :
         /\ lastInput' = [kind |-> triggerOn, fault |-> rpc.fault]
         /\ Invocation(
            BlockFinalizedPoll(workflowStaticData, rpc.tip, rpc.fault = "tip", Failing(rpc),
                               verifiedUpTo, executedUpTo),
            SeenTip(rpc), TRUE)

PollBalanceChange ==
    /\ triggerOn = "balanceChange"
    /\ \E watchAddress \in WatchAddresses, currentBalance \in Balances,
          balanceFails \in BOOLEAN :
         /\ isValidAddress(watchAddress) \/ (currentBalance = 0 /\ balanceFails)
         /\ lastInput' =
              [ kind |-> triggerOn, watchAddress |-> watchAddress,
                currentBalance |-> currentBalance, balanceFails |-> balanceFails ]
         /\ Invocation(
            BalanceChangePoll(workflowStaticData, watchAddress, currentBalance, balanceFails),
            IF isValidAddress(watchAddress) /\ ~balanceFails
            THEN Some(currentBalance) ELSE Undefined,
            TRUE)

\* The provider's chain moves on: more batches are verified and executed on L1.
\* Only blockFinalized reads the batch status.
L1Progress ==
    /\ triggerOn = "blockFinalized"
    /\ \E v \in RecentBatches, e \in RecentBatches :
         /\ v >= verifiedUpTo
         /\ e >= executedUpTo
         /\ e <= v
         /\ <<v, e>> # <<verifiedUpTo, executedUpTo>>
         /\ verifiedUpTo' = v
         /\ executedUpTo' = e
    /\ UNCHANGED <<triggerOn, workflowStaticData, chain, lastPoll, seenTip, emitCount,
                   txEmitCount, owed, firstWatermark, steady, lastInput, pollClock,
                   balanceTrail, execVars, utilVars, transportVars>>

\* ------------------------------------------------------ network configuration
\* NETWORKS of the constants: the two built-in networks.
NetworkNames == {"mainnet", "sepolia"}

NETWORKS ==
    [ mainnet |->
        [ name |-> "zkSync Era Mainnet", chainId |-> 324,
          rpcUrl |-> "https://mainnet.era.zksync.io",
          explorerUrl |-> "https://explorer.zksync.io",
          explorerApiUrl |-> "https://block-explorer-api.mainnet.zksync.io",
          l1ChainId |-> 1, l1RpcUrl |-> "https://ethereum.publicnode.com",
          bridgeAddress |-> "0x32400084C286CF3E17e7B677ea9583e60a000324",
          testnetPaymaster |-> Undefined ],
      sepolia |->
        [ name |-> "zkSync Era Sepolia Testnet", chainId |-> 300,
          rpcUrl |-> "https://sepolia.era.zksync.dev",
          explorerUrl |-> "https://sepolia.explorer.zksync.io",
          explorerApiUrl |-> "https://block-explorer-api.sepolia.zksync.dev",
          l1ChainId |-> 11155111, l1RpcUrl |-> "https://ethereum-sepolia.publicnode.com",
          bridgeAddress |-> "0x9A6DE0f62Aa270A8bCB1e2610078650D539B1Ef9",
          testnetPaymaster |-> Some("0x3cb2b87d10ac01736a65688f3e0fb1b070b3eea3") ] ]

\* NETWORKS[network] || NETWORKS.mainnet: an unknown name reads as undefined.
NetworkOrMainnet(network) ==
    IF network \in NetworkNames THEN NETWORKS[network] ELSE NETWORKS["mainnet"]

\* A variant that looks the name up whatever the custom URL is.
getNetworkConfigIgnoresUrl(network, customRpcUrl) == NetworkOrMainnet(network)

\* getNetworkConfig(network, customRpcUrl?): the optional URL is truthy when it is
\* given and not the empty string.
getNetworkConfig(network, customRpcUrl) ==
    IF network = "custom" /\ IsDefined(customRpcUrl) /\ ValueOf(customRpcUrl) # ""
    THEN [ name |-> "Custom Network", chainId |-> 0, rpcUrl |-> ValueOf(customRpcUrl),
           explorerUrl |-> "", explorerApiUrl |-> "", l1ChainId |-> 0, l1RpcUrl |-> "",
           bridgeAddress |-> "", testnetPaymaster |-> Undefined ]
    ELSE NetworkOrMainnet(network)

\* The network parameter of the credentials, and the optional custom RPC URL.
NetworkParameters == {"mainnet", "sepolia", "custom", "goerli"}
CustomRpcUrls ==
    {Undefined, Some(""), Some("https://custom-rpc.example.com"), Some("http://localhost:3050")}

\* ---------------------------------------------------------------- execute
\* The resource.operation pairs of the action node that need a signing key, and
\* two that do not: one that validates its address and one that only reports on it.
SigningOperations ==
    {"transaction.sendEth", "token.transfer", "token.approve", "nft.transfer",
     "contract.write", "utility.signMessage"}
Operations == SigningOperations \cup {"account.getBalance", "utility.validateAddress"}

\* The operations whose address parameter is varied (the address parameters of the
\* other operations are handed to the contract library as they are).
AddressOperations == {"account.getBalance", "transaction.sendEth", "utility.validateAddress"}

\* One input item: the node parameters read for it.
ItemShapes ==
    {[operation |-> o, address |-> "0xAa", usePaymaster |-> FALSE] : o \in Operations}
    \cup {[operation |-> o, address |-> "0xinvalid", usePaymaster |-> FALSE] :
             o \in AddressOperations}
    \cup {[operation |-> "transaction.sendEth", address |-> "0xAa", usePaymaster |-> TRUE]}
ItemLists == UNION {[1..n -> ItemShapes] : n \in 0..MaxItems}

\* The message of the error thrown when `wallet` is undefined.
PrivateKeyRequired(operation) ==
    CASE operation = "transaction.sendEth" -> "Private key is required to send transactions"
      [] operation = "token.transfer" -> "Private key is required to transfer tokens"
      [] operation = "token.approve" -> "Private key is required to approve tokens"
      [] operation = "nft.transfer" -> "Private key is required to transfer NFTs"
      [] operation = "contract.write" -> "Private key is required to write to contracts"
      [] operation = "utility.signMessage" -> "Private key is required to sign messages"
InvalidAddressMessages == {"Invalid Ethereum address", "Invalid recipient address"}
\* Whatever message the provider's own failure carries.
ProviderError == "provider error"

\* createZkSyncClient: the wallet exists iff the private key is truthy ('' is not);
\* provider.getNetwork() is awaited before the client is returned.
createZkSyncClient(privateKey, networkFails) ==
    [ wallet |-> privateKey # "", calls |-> <<"getNetwork">>, threw |-> networkFails ]

\* How the try block ends for one item: the error thrown (Undefined when none), the
\* provider requests issued up to then, whether a transaction was submitted, whether
\* a signature was produced, and the paymaster params in the custom data of the
\* submitted transaction (Undefined when it has none).
Failed(message, calls) ==
    [ error |-> Some(message), calls |-> calls, sent |-> FALSE, signed |-> FALSE,
      paymasterParams |-> Undefined ]
Done(calls, sent, signed) ==
    [ error |-> Undefined, calls |-> calls, sent |-> sent, signed |-> signed,
      paymasterParams |-> Undefined ]

\* getGeneralPaymasterParams: the params of the general flow with an empty inner input.
getGeneralPaymasterParams(paymasterAddress) ==
    [paymaster |-> paymasterAddress, type |-> "General", innerInput |-> "0x"]

\* A write through the wallet: `before` are the reads that precede the submission.
\* `fault` = "call" makes the first request of the operation throw.
SendThroughWallet(calls, before, method, fault) ==
    IF fault = "call" THEN Failed(ProviderError, Append(calls, (before \o <<method>>)[1]))
    ELSE Done(calls \o before \o <<method, "wait">>, TRUE, FALSE)

\* case 'sendEth' once the wallet and the recipient are checked: the request is built,
\* the custom data is attached when the network lists a testnet paymaster, and the
\* transaction is submitted through the wallet.
sendEth(calls, usePaymaster, network, customRpcUrl, fault) ==
    LET config == getNetworkConfig(network, customRpcUrl)
        customData ==
            IF usePaymaster /\ IsDefined(config.testnetPaymaster)
            THEN Some(getGeneralPaymasterParams(ValueOf(config.testnetPaymaster)))
            ELSE Undefined
        run == SendThroughWallet(calls, <<>>, "sendTransaction", fault)
    IN [run EXCEPT !.paymasterParams = IF run.sent THEN customData ELSE Undefined]

\* The body of the try block of execute for one item.
RunItem(item, credentials, fault) ==
    LET client == createZkSyncClient(credentials.privateKey, fault = "network")
        wallet == client.wallet
        calls == client.calls
        operation == item.operation
    IN
    IF client.threw THEN Failed(ProviderError, calls)
    ELSE
      CASE operation = "account.getBalance" ->
             IF ~isValidAddress(item.address) THEN Failed("Invalid Ethereum address", calls)
             ELSE IF fault = "call" THEN Failed(ProviderError, Append(calls, "getBalance"))
             ELSE Done(Append(calls, "getBalance"), FALSE, FALSE)
        [] operation = "transaction.sendEth" ->
             IF ~wallet THEN Failed(PrivateKeyRequired(operation), calls)
             ELSE IF ~isValidAddress(item.address)
             THEN Failed("Invalid recipient address", calls)
             ELSE sendEth(calls, item.usePaymaster, credentials.network,
                          credentials.customRpcUrl, fault)
        [] operation \in {"token.transfer", "token.approve"} ->
             IF ~wallet THEN Failed(PrivateKeyRequired(operation), calls)
             ELSE SendThroughWallet(calls, <<"decimals">>,
                                    IF operation = "token.transfer" THEN "transfer"
                                    ELSE "approve",
                                    fault)
        [] operation = "nft.transfer" ->
             IF ~wallet THEN Failed(PrivateKeyRequired(operation), calls)
             ELSE SendThroughWallet(calls, <<>>, "transferFrom", fault)
        [] operation = "contract.write" ->
             IF ~wallet THEN Failed(PrivateKeyRequired(operation), calls)
             ELSE SendThroughWallet(calls, <<>>, "write", fault)
        [] operation = "utility.signMessage" ->
             IF ~wallet THEN Failed(PrivateKeyRequired(operation), calls)
             ELSE Done(calls, FALSE, TRUE)
        [] operation = "utility.validateAddress" -> Done(calls, FALSE, FALSE)

\* The provider fault that hits item number k (counted from 1).
FaultOf(k, faultAt, faultStage) == IF k = faultAt THEN faultStage ELSE "none"

\* ExecuteLoop with `break` for `continue` in the catch block: with continue-on-failure
\* the error item is pushed and the loop ends.
RECURSIVE ExecuteLoopBreaks(_, _, _, _, _, _, _)
ExecuteLoopBreaks(i, items, continueOnFail, credentials, faultAt, faultStage, st) ==
    IF i >= Len(items) THEN st
    ELSE
      LET run == RunItem(items[i + 1], credentials, FaultOf(i + 1, faultAt, faultStage))
          runs == Append(st.runs, run)
      IN
      IF IsDefined(run.error)
      THEN IF continueOnFail
           THEN [st EXCEPT !.runs = runs,
                           !.returnData =
                              Append(@, [error |-> run.error, result |-> Undefined,
                                         pairedItem |-> Some(i)])]
           ELSE [st EXCEPT !.threw = TRUE, !.runs = runs]
      ELSE ExecuteLoopBreaks(
              i + 1, items, continueOnFail, credentials, faultAt, faultStage,
              [st EXCEPT !.runs = runs,
                         !.returnData =
                            Append(@, [error |-> Undefined,
                                       result |-> Some(items[i + 1].operation),
                                       pairedItem |-> Undefined])])

\* The for loop of execute, i counted from 0 as in the source; items[i] of the source
\* is items[i + 1] here.
RECURSIVE ExecuteLoop(_, _, _, _, _, _, _)
ExecuteLoop(i, items, continueOnFail, credentials, faultAt, faultStage, st) ==
    IF i >= Len(items) THEN st
    ELSE
      LET run == RunItem(items[i + 1], credentials, FaultOf(i + 1, faultAt, faultStage))
          runs == Append(st.runs, run)
      IN
      IF IsDefined(run.error)
      THEN IF continueOnFail
           THEN ExecuteLoop(
                   i + 1, items, continueOnFail, credentials, faultAt, faultStage,
                   [st EXCEPT !.runs = runs,
                              !.returnData =
                                 Append(@, [error |-> run.error, result |-> Undefined,
                                            pairedItem |-> Some(i)])])
           ELSE [st EXCEPT !.threw = TRUE, !.runs = runs]
      ELSE ExecuteLoop(
              i + 1, items, continueOnFail, credentials, faultAt, faultStage,
              [st EXCEPT !.runs = runs,
                         !.returnData =
                            Append(@, [error |-> Undefined,
                                       result |-> Some(items[i + 1].operation),
                                       pairedItem |-> Undefined])])

\* execute: what the call hands back; nothing is returned when it throws.
execute(items, continueOnFail, credentials, faultAt, faultStage) ==
    LET st == ExecuteLoop(0, items, continueOnFail, credentials, faultAt, faultStage,
                          [threw |-> FALSE, returnData |-> <<>>, runs |-> <<>>])
    IN IF st.threw THEN [st EXCEPT !.returnData = <<>>] ELSE st

\* No execute call is in progress.
Idle ==
    [ phase |-> "idle", items |-> <<>>, continueOnFail |-> FALSE, privateKey |-> "",
      network |-> "mainnet", customRpcUrl |-> Undefined,
      faultAt |-> 0, faultStage |-> "network", threw |-> FALSE, returnData |-> <<>>,
      runs |-> <<>> ]

\* The host calls execute with the input items; one provider request at most fails.
ExecuteCall ==
    /\ lastExecute.phase = "idle"
    /\ \E items \in ItemLists, continueOnFail \in BOOLEAN, privateKey \in {"", "0xkey"},
          network \in NetworkParameters, customRpcUrl \in CustomRpcUrls,
          faultAt \in 0..MaxItems, faultStage \in {"network", "call"} :
         /\ faultAt <= Len(items)
         /\ faultAt = 0 => faultStage = "network"
         \* the network only picks the endpoint, unless an item asks for the paymaster
         /\ (\A k \in 1..Len(items) : ~items[k].usePaymaster)
               => (network = "mainnet" /\ customRpcUrl = Undefined)
         /\ LET credentials ==
                  [network |-> network, customRpcUrl |-> customRpcUrl,
                   privateKey |-> privateKey]
                result == execute(items, continueOnFail, credentials, faultAt, faultStage)
            IN
            /\ lastExecute' =
                 [ phase |-> "done", items |-> items, continueOnFail |-> continueOnFail,
                   privateKey |-> privateKey, network |-> network,
                   customRpcUrl |-> customRpcUrl, faultAt |-> faultAt,
                   faultStage |-> faultStage, threw |-> result.threw,
                   returnData |-> result.returnData, runs |-> result.runs ]
            /\ licensingNoticeLogged' = (licensingNoticeLogged \/ Len(items) > 0)
            /\ noticesLogged' =
                 IF ~licensingNoticeLogged /\ Len(items) > 0 THEN noticesLogged + 1
                 ELSE noticesLogged
    /\ UNCHANGED <<pollVars, utilVars, retry, clientCalls>>

\* The host takes the outcome of the call; the node is ready for the next one.
ExecuteReturns ==
    /\ lastExecute.phase = "done"
    /\ lastExecute' = Idle
    /\ UNCHANGED <<licensingNoticeLogged, pollVars, utilVars, transportVars>>

\* ------------------------------------------------------------ unit converter
\* A JavaScript string is the sequence of its characters.
DigitChars == <<"0", "1", "2", "3", "4", "5", "6", "7", "8", "9">>
Digits == {DigitChars[i] : i \in 1..10}

\* An ethers bigint: its sign and the canonical decimal digits of its magnitude.
\* BigInt(string): leading zeros do not count and minus zero is zero.
RECURSIVE StripLeadingZeros(_)
StripLeadingZeros(s) ==
    IF Len(s) > 1 /\ s[1] = "0" THEN StripLeadingZeros(Tail(s)) ELSE s

BigIntOf(sign, digits) ==
    LET mag == StripLeadingZeros(digits) IN
    [ neg |-> (sign = "-" /\ mag # <<"0">>), digits |-> mag ]

\* BigInt.prototype.toString() of an ethers bigint.
BigIntToString(val) == IF val.neg THEN <<"-">> \o val.digits ELSE val.digits

\* The bigint of a JavaScript integer small enough to be counted.
RECURSIVE NatDigits(_)
NatDigits(n) ==
    IF n < 10 THEN <<DigitChars[n + 1]>>
    ELSE Append(NatDigits(n \div 10), DigitChars[(n % 10) + 1])

BigIntOfNumber(n) ==
    IF n < 0 THEN [neg |-> TRUE, digits |-> NatDigits(0 - n)]
    ELSE [neg |-> FALSE, digits |-> NatDigits(n)]

Units == {"wei", "kwei", "mwei", "gwei", "szabo", "finney", "ether"}

UNIT_DECIMALS ==
    [ wei |-> 0, kwei |-> 3, mwei |-> 6, gwei |-> 9, szabo |-> 12, finney |-> 15,
      ether |-> 18 ]

\* The outcome of a utility call: the returned value, or a throw.
Value(v) == [threw |-> FALSE, value |-> v]
Throws == [threw |-> TRUE, value |-> <<>>]

RepeatChar(c, n) == [i \in 1..n |-> c]

\* ethers.parseUnits(value, decimals) is FixedNumber.fromString(value, {decimals}).value:
\* the string must match /^(-?)([0-9]*)\.?([0-9]*)$/ with at least one digit; the
\* fraction is padded with zeros to `decimals` digits and anything beyond them must
\* be zeros; the result is BigInt(sign + whole + fraction).
parseUnits(value, decimals) ==
    LET sign == IF Len(value) > 0 /\ value[1] = "-" THEN "-" ELSE ""
        body == IF sign = "-" THEN Tail(value) ELSE value
        points == {i \in 1..Len(body) : body[i] = "."}
        point == IF points = {} THEN Len(body) + 1 ELSE CHOOSE i \in points : TRUE
        whole == SubSeq(body, 1, point - 1)
        fraction == SubSeq(body, point + 1, Len(body))
        matches ==
            /\ Cardinality(points) <= 1
            /\ \A i \in 1..Len(body) : body[i] \in Digits \cup {"."}
        padded ==
            IF Len(fraction) < decimals
            THEN fraction \o RepeatChar("0", decimals - Len(fraction))
            ELSE fraction
    IN  IF ~matches \/ Len(whole) + Len(fraction) = 0 THEN Throws
        ELSE IF \E i \in (decimals + 1)..Len(padded) : padded[i] # "0" THEN Throws
        ELSE Value(BigIntOf(sign, (IF whole = <<>> THEN <<"0">> ELSE whole)
                                    \o SubSeq(padded, 1, decimals)))

\* FixedNumber's toString(val, decimals): the loops of the library, one by one.
RECURSIVE PadWhole(_, _)
PadWhole(str, decimals) ==
    IF Len(str) <= decimals THEN PadWhole(RepeatChar("0", 4) \o str, decimals) ELSE str

RECURSIVE TrimWhole(_)
TrimWhole(str) == IF str[1] = "0" /\ str[2] # "." THEN TrimWhole(Tail(str)) ELSE str

\* A variant that keeps the trailing zeros of the fraction.
KeepDecimal(str) == str

RECURSIVE TrimDecimal(_)
TrimDecimal(str) ==
    IF str[Len(str)] = "0" /\ str[Len(str) - 1] # "."
    THEN TrimDecimal(SubSeq(str, 1, Len(str) - 1))
    ELSE str

\* ethers.formatUnits(value, decimals): no decimal point for decimals = 0; otherwise
\* the point is inserted, the whole part keeps one digit at least and the fraction
\* keeps one digit at least ("1.0").
formatUnits(val, decimals) ==
    LET negative == IF val.neg THEN <<"-">> ELSE <<>>
        str == PadWhole(val.digits, decimals)
        index == Len(str) - decimals
        pointed == SubSeq(str, 1, index) \o <<".">> \o SubSeq(str, index + 1, Len(str))
    IN  IF decimals = 0 THEN negative \o val.digits
        ELSE negative \o TrimDecimal(TrimWhole(pointed))

formatEther(val) == formatUnits(val, UNIT_DECIMALS["ether"])

\* A variant that reads the amount in the target unit and renders it in the source unit.
convertUnitsSwapped(value, fromUnit, toUnit) ==
    LET weiValue == parseUnits(value, UNIT_DECIMALS[toUnit]) IN
    IF weiValue.threw THEN Throws
    ELSE Value(formatUnits(weiValue.value, UNIT_DECIMALS[fromUnit]))

\* convertUnits(value, fromUnit, toUnit) of utils/unitConverter.ts.
convertUnits(value, fromUnit, toUnit) ==
    LET fromDecimals == UNIT_DECIMALS[fromUnit]
        toDecimals == UNIT_DECIMALS[toUnit]
        weiValue == parseUnits(value, fromDecimals)
    IN  IF weiValue.threw THEN Throws
        ELSE Value(formatUnits(weiValue.value, toDecimals))

\* calculateTxCost(gasUsed, gasPrice) of utils/unitConverter.ts: the product, rendered
\* in wei, gwei and ether.  Nothing is checked and nothing is thrown.
calculateTxCost(gasUsed, gasPrice) ==
    LET cost == BigIntOfNumber(gasUsed * gasPrice) IN
    Value([ wei |-> BigIntToString(cost),
            gwei |-> formatUnits(cost, UNIT_DECIMALS["gwei"]),
            eth |-> formatEther(cost) ])

\* ----------------------------------------------------------- utility calls
\* The characters amounts are written with, and the amounts a caller passes: every
\* short string over them (malformed ones included) and every short whole number
\* followed by the zeros of a unit.
AmountChars == {"0", "1", "5", ".", "-"}
ShortAmounts == UNION {[1..n -> AmountChars] : n \in 1..MaxAmountLen}
WholeNumbers ==
    {a \in ShortAmounts : (\A i \in 1..Len(a) : a[i] \in Digits) /\ StripLeadingZeros(a) = a}
ScaledAmounts == {n \o RepeatChar("0", UNIT_DECIMALS[u]) : n \in WholeNumbers, u \in Units}
Amounts == ShortAmounts \cup ScaledAmounts

NoUtility == [fn |-> "none", args |-> <<>>, result |-> Undefined, back |-> Undefined]
UtilityCall(fn, args) == [fn |-> fn, args |-> args, result |-> Undefined, back |-> Undefined]

ConvertCalls ==
    { UtilityCall("convertUnits", [value |-> a, fromUnit |-> u, toUnit |-> v]) :
        a \in Amounts, u \in Units, v \in Units }

\* Gas quantities are bigints: negative ones are values of the type.
Quantities == (0 - MaxQuantity)..MaxQuantity

CostCalls ==
    { UtilityCall("calculateTxCost", [gasUsed |-> g, gasPrice |-> p]) :
        g \in Quantities, p \in Quantities }

NetworkCalls ==
    { UtilityCall("getNetworkConfig", [network |-> n, customRpcUrl |-> url]) :
        n \in NetworkParameters, url \in CustomRpcUrls }

UtilityCalls == ConvertCalls \cup CostCalls \cup NetworkCalls

\* convertUnits runs on the arguments of the call.
ConvertUnitsCall ==
    /\ lastUtility.fn = "convertUnits"
    /\ ~IsDefined(lastUtility.result)
    /\ lastUtility' =
         [lastUtility EXCEPT !.result =
            Some(convertUnits(lastUtility.args.value, lastUtility.args.fromUnit,
                              lastUtility.args.toUnit))]
    /\ UNCHANGED <<pollVars, execVars, transportVars>>

\* calculateTxCost runs on the arguments of the call.
CalculateTxCostCall ==
    /\ lastUtility.fn = "calculateTxCost"
    /\ ~IsDefined(lastUtility.result)
    /\ lastUtility' =
         [lastUtility EXCEPT !.result =
            Some(calculateTxCost(lastUtility.args.gasUsed, lastUtility.args.gasPrice))]
    /\ UNCHANGED <<pollVars, execVars, transportVars>>

\* getNetworkConfig runs on the arguments of the call.
GetNetworkConfigCall ==
    /\ lastUtility.fn = "getNetworkConfig"
    /\ ~IsDefined(lastUtility.result)
    /\ lastUtility' =
         [lastUtility EXCEPT !.result =
            Some(Value(getNetworkConfig(lastUtility.args.network,
                                        lastUtility.args.customRpcUrl)))]
    /\ UNCHANGED <<pollVars, execVars, transportVars>>

\* The caller converts the returned amount back into the unit it started from.
ConvertUnitsBack ==
    /\ lastUtility.fn = "convertUnits"
    /\ IsDefined(lastUtility.result)
    /\ ~ValueOf(lastUtility.result).threw
    /\ ~IsDefined(lastUtility.back)
    /\ lastUtility' =
         [lastUtility EXCEPT !.back =
            Some(convertUnits(ValueOf(lastUtility.result).value, lastUtility.args.toUnit,
                              lastUtility.args.fromUnit))]
    /\ UNCHANGED <<pollVars, execVars, transportVars>>

\* ------------------------------------------------------ receipt retry helper
\* getTransactionReceipt(provider, txHash, maxRetries) of transport/zksyncClient.ts,
\* one step per await.  `i` is the loop counter; `lookups` and `waits` count the
\* provider requests and the timers so far.
NoRetry ==
    [ pc |-> "idle", txHash |-> "", maxRetries |-> 0, i |-> 0, lookups |-> 0, waits |-> 0,
      outcome |-> "none", receipt |-> Undefined ]

RetryCall(txHash, maxRetries) ==
    [NoRetry EXCEPT !.pc = "loop", !.txHash = txHash, !.maxRetries = maxRetries]

RetryCalls == {RetryCall(h, m) : h \in Hashes, m \in 0..MaxRetries}

\* What one provider.getTransactionReceipt request comes to.
LookupAnswers ==
    {[threw |-> TRUE, receipt |-> Undefined]} \cup {[threw |-> FALSE, receipt |-> r] : r \in Receipts}

\* A variant that sleeps after the last attempt as well.
WaitsAfterEveryAttempt(i, maxRetries) == TRUE

\* `if (i < maxRetries - 1)`: the delay is taken only when another attempt follows.
ShouldWait(i, maxRetries) == i < maxRetries - 1

\* The loop condition `i < maxRetries`, and `return null` behind the loop.
RetryLoopTest ==
    /\ retry.pc = "loop"
    /\ retry' =
         IF retry.i < retry.maxRetries THEN [retry EXCEPT !.pc = "lookup"]
         ELSE [retry EXCEPT !.pc = "done", !.outcome = "null"]
    /\ UNCHANGED <<pollVars, execVars, utilVars, clientCalls, noticesLogged>>

\* `await provider.getTransactionReceipt(txHash)` settles: a throw leaves the helper,
\* a receipt is returned at once, null goes on to the delay or to the next round.
RetryLookup ==
    /\ retry.pc = "lookup"
    /\ \E answer \in LookupAnswers :
         retry' =
           LET asked == [retry EXCEPT !.lookups = @ + 1] IN
           IF answer.threw THEN [asked EXCEPT !.pc = "done", !.outcome = "threw"]
           ELSE IF IsDefined(answer.receipt)
           THEN [asked EXCEPT !.pc = "done", !.outcome = "receipt",
                              !.receipt = answer.receipt]
           ELSE IF ShouldWait(retry.i, retry.maxRetries) THEN [asked EXCEPT !.pc = "wait"]
           ELSE [asked EXCEPT !.pc = "loop", !.i = @ + 1]
    /\ UNCHANGED <<pollVars, execVars, utilVars, clientCalls, noticesLogged>>

\* The 2000 ms timer fires; `i++` and back to the loop condition.
RetryWait ==
    /\ retry.pc = "wait"
    /\ retry' = [retry EXCEPT !.pc = "loop", !.waits = @ + 1, !.i = @ + 1]
    /\ UNCHANGED <<pollVars, execVars, utilVars, clientCalls, noticesLogged>>

\* ------------------------------------------------------- createZkSyncClient
\* A variant of the guard of logLicensingNotice that prints on every call.
NoticeAlwaysDue(logged) == TRUE

\* `if (!licensingNoticeLogged)`: the guard of logLicensingNotice.
NoticeDue(logged) == ~logged

\* A call enters createZkSyncClient: logLicensingNotice runs to its end (it has no
\* await, so no other call runs in between), the provider is built for the network
\* and the call stops at `await provider.getNetwork()`.
ClientEnter ==
    /\ Len(clientCalls) < MaxClients
    /\ \E network \in NetworkParameters, privateKey \in {"", "0xkey"} :
         clientCalls' =
           Append(clientCalls,
                  [ pc |-> "getNetwork", network |-> network, privateKey |-> privateKey,
                    printed |-> NoticeDue(licensingNoticeLogged) ])
    /\ noticesLogged' =
         IF NoticeDue(licensingNoticeLogged) THEN noticesLogged + 1 ELSE noticesLogged
    /\ licensingNoticeLogged' = (NoticeDue(licensingNoticeLogged) \/ licensingNoticeLogged)
    /\ UNCHANGED <<pollVars, lastExecute, utilVars, retry>>

\* provider.getNetwork() of some waiting call resolves: the client is returned.
ClientResolves ==
    /\ \E c \in 1..Len(clientCalls) :
         /\ clientCalls[c].pc = "getNetwork"
         /\ clientCalls' = [clientCalls EXCEPT ![c].pc = "returned"]
    /\ UNCHANGED <<pollVars, execVars, utilVars, retry, noticesLogged>>

\* provider.getNetwork() of some waiting call rejects: the call fails.
ClientRejects ==
    /\ \E c \in 1..Len(clientCalls) :
         /\ clientCalls[c].pc = "getNetwork"
         /\ clientCalls' = [clientCalls EXCEPT ![c].pc = "threw"]
    /\ UNCHANGED <<pollVars, execVars, utilVars, retry, noticesLogged>>

\* Both nodes after construction, before any utility is called.
InitNodes ==
    /\ licensingNoticeLogged = FALSE
    /\ lastExecute = Idle
    /\ triggerOn \in TriggerKinds
    /\ workflowStaticData = EmptyStaticData
    /\ chain \in Chains(triggerOn)
    /\ verifiedUpTo = SeedBacklog - 1
    /\ executedUpTo = SeedBacklog - 1
    /\ lastPoll =
         [ n |-> 0, threw |-> FALSE, seen |-> Undefined, prevSeen |-> Undefined,
           returnData |-> <<>>, asked |-> <<>> ]
    /\ seenTip = Undefined
    /\ emitCount = [k \in Batches |-> 0]
    /\ txEmitCount = [h \in Hashes |-> 0]
    /\ owed = {}
    /\ firstWatermark = Undefined
    /\ steady = TRUE
    /\ lastInput = NoInput
    /\ balanceTrail = NoTrail

\* The transport module after load: no helper call, no client call, nothing printed.
InitTransport == retry = NoRetry /\ clientCalls = <<>> /\ noticesLogged = 0

\* The poll count is observed only where the host's schedule matters.
InitUnobserved == InitNodes /\ pollClock = Undefined

Init == InitUnobserved /\ lastUtility = NoUtility /\ InitTransport

Next ==
    \/ PollNewBlock
    \/ PollNewL1Batch
    \/ PollTransactionConfirmed
    \/ PollEthTransfer
    \/ PollTokenTransfer
    \/ PollNftTransfer
    \/ PollContractEvent
    \/ PollBlockFinalized
    \/ PollBalanceChange
    \/ L1Progress

Spec == Init /\ [][Next]_vars

\* The action node alone: a workflow that runs ZkSync.execute and polls nothing.
InitExec == Init /\ triggerOn = "newBlock"

NextExec ==
    \/ ExecuteCall
    \/ ExecuteReturns

SpecExec == InitExec /\ [][NextExec]_vars

\* The utilities alone: a caller that makes one utility call on arguments of its choice.
InitUtil ==
    InitUnobserved /\ triggerOn = "newBlock" /\ lastUtility \in UtilityCalls /\ InitTransport

NextUtil ==
    \/ ConvertUnitsCall
    \/ ConvertUnitsBack
    \/ CalculateTxCostCall
    \/ GetNetworkConfigCall

SpecUtil == InitUtil /\ [][NextUtil]_vars

\* The retry helper alone: one call on a hash and a retry count of the caller's choice.
\* Every await settles: a provider request resolves or rejects, a timer fires, and the
\* event loop runs the continuation.
InitRetry ==
    /\ InitUnobserved /\ triggerOn = "newBlock" /\ lastUtility = NoUtility
    /\ retry \in RetryCalls /\ clientCalls = <<>> /\ noticesLogged = 0

NextRetry ==
    \/ RetryLoopTest
    \/ RetryLookup
    \/ RetryWait

SpecRetry == InitRetry /\ [][NextRetry]_vars /\ WF_vars(NextRetry)

\* createZkSyncClient alone: calls enter one after the other and their awaits settle
\* in any order.
InitClient == InitUnobserved /\ triggerOn = "newBlock" /\ lastUtility = NoUtility /\ InitTransport

NextClient ==
    \/ ClientEnter
    \/ ClientResolves
    \/ ClientRejects

SpecClient == InitClient /\ [][NextClient]_vars

\* The trigger node under its schedule: while the workflow is active the host calls
\* poll() at every tick of the schedule, so an invocation always comes again.
InitScheduled ==
    /\ InitNodes /\ triggerOn \in {"blockFinalized", "tokenTransfer"}
    /\ pollClock = Some(0)
    /\ lastUtility = NoUtility /\ InitTransport

NextScheduled ==
    \/ PollBlockFinalized
    \/ PollTokenTransfer
    \/ L1Progress

SpecScheduled ==
    /\ InitScheduled /\ [][NextScheduled]_vars
    /\ WF_vars(PollBlockFinalized) /\ WF_vars(PollTokenTransfer)

\* ------------------------------------------------------------------- claims
\* A step that is one poll invocation (L1Progress moves a frontier and polls nothing).
PollStep ==
    /\ verifiedUpTo' = verifiedUpTo
    /\ executedUpTo' = executedUpTo
    /\ lastPoll'.n > 0

\* The keys of the cursor store that hold a numeric watermark.
WatermarkKeys ==
    {"lastBlock", "lastL1Batch", "lastCheckedBlock", "lastTokenBlock", "lastNftBlock",
     "lastEventBlock", "lastFinalizedBatch"}

\* C1: when the provider reports the tip (or balance) that the previous completed
\* invocation saw, the invocation returns no event and leaves every key of the
\* cursor store as it was.
C1_UnchangedTipIsNoOp ==
    [][ (PollStep /\ IsDefined(seenTip) /\ lastPoll'.seen = seenTip)
          => /\ lastPoll'.returnData = <<>>
             /\ workflowStaticData' = workflowStaticData ]_vars

\* C2: an invocation of a range kind that throws leaves the stored watermark W as it
\* was; the invocation after a throw, given a tip above W, starts its scan at W + 1;
\* and no unit of a range whose scan threw is ever at or below the stored watermark
\* without a completed invocation having scanned it.
C2_ThrowKeepsRange ==
    [][ (PollStep /\ triggerOn \in RangeKinds)
          => LET W == WatermarkOf(triggerOn, workflowStaticData)
                 W2 == WatermarkOf(triggerOn, workflowStaticData')
             IN
             /\ lastPoll'.threw => W2 = W
             /\ (lastPoll.n > 0 /\ lastPoll.threw /\ IsDefined(W) /\ IsDefined(lastPoll'.seen)
                   /\ ValueOf(lastPoll'.seen) > ValueOf(W) /\ Len(lastPoll'.asked) >= 2)
                   => lastPoll'.asked[2].arg = ValueOf(W) + 1
             /\ IsDefined(W2) => \A n \in owed' : n > ValueOf(W2) ]_vars

\* C3: over any sequence of invocations, transactionConfirmed returns at most one
\* event per transaction hash and blockFinalized at most one event per batch number.
C3_AtMostOncePerLatch ==
    /\ \A h \in Hashes : txEmitCount[h] <= 1
    /\ triggerOn = "blockFinalized" => \A n \in Batches : emitCount[n] <= 1

\* A batch whose event was returned once has just been looked up again by a completed
\* invocation, which returned nothing for it.
C3_Witness ==
    /\ triggerOn = "blockFinalized"
    /\ ~lastPoll.threw
    /\ \E n \in Batches :
         /\ emitCount[n] = 1
         /\ n \in workflowStaticData.batch_executed
         /\ \E i \in 1..Len(lastPoll.asked) : lastPoll.asked[i] = Call("getL1BatchDetails", n)
         /\ \A i \in 1..Len(lastPoll.returnData) : lastPoll.returnData[i].id # n

\* C4: for newBlock and newL1Batch, while no invocation threw, no block was missing
\* and the tips never went down, every number above the watermark stored by the first
\* invocation and at most the latest tip has been returned exactly once.
C4_EveryNumberExactlyOnce ==
    (triggerOn \in {"newBlock", "newL1Batch"} /\ steady
       /\ IsDefined(firstWatermark) /\ IsDefined(seenTip))
      => \A n \in Tips :
            (ValueOf(firstWatermark) < n /\ n <= ValueOf(seenTip)) => emitCount[n] = 1

\* The kinds whose first invocation seeds a watermark or a snapshot.
C5Kinds == RangeKinds \cup {"balanceChange"}

\* C5 as stated: the first invocation on an empty store that completes stores the
\* tip minus one as watermark (the balance snapshot for balanceChange) and returns
\* no event.
C5_FirstInvocationSilent ==
    [][ (PollStep /\ triggerOn \in C5Kinds /\ workflowStaticData = EmptyStaticData
           /\ ~lastPoll'.threw)
          => /\ lastPoll'.returnData = <<>>
             /\ triggerOn \in RangeKinds
                  => WatermarkOf(triggerOn, workflowStaticData')
                        = Some(ValueOf(lastPoll'.seen) - 1)
             /\ triggerOn = "balanceChange"
                  => workflowStaticData'.lastBalance
                        = Some(toString(ValueOf(lastPoll'.seen))) ]_vars

\* C5 amended: the first invocation on an empty store that completes scans exactly
\* the unit at the tip: every lookup it makes and every event it returns is for the
\* tip, newBlock and newL1Batch return the event of the tip itself, and the watermark
\* it stores is the tip; balanceChange stores the balance snapshot and returns nothing.
C5_FirstInvocationScansTip ==
    [][ (PollStep /\ triggerOn \in C5Kinds /\ workflowStaticData = EmptyStaticData
           /\ ~lastPoll'.threw)
          => LET tip == ValueOf(lastPoll'.seen)
                 out == lastPoll'.returnData
                 asked == lastPoll'.asked
             IN
             /\ triggerOn \in RangeKinds
                  => /\ WatermarkOf(triggerOn, workflowStaticData') = Some(tip)
                     /\ \A i \in 1..Len(out) : out[i].id = tip
                     /\ \A i \in 2..Len(asked) : asked[i].arg = tip
             /\ (triggerOn = "newL1Batch" \/ (triggerOn = "newBlock" /\ steady'))
                  => out = <<[type |-> triggerOn, id |-> tip]>>
             /\ triggerOn = "balanceChange"
                  => /\ workflowStaticData'.lastBalance = Some(toString(tip))
                     /\ out = <<>> ]_vars

\* The first invocation was the latest one, it completed and returned the event of
\* the tip it saw.
C5_Witness ==
    /\ lastPoll.n = 1
    /\ ~lastPoll.threw
    /\ triggerOn \in RangeKinds
    /\ lastPoll.returnData # <<>>
    /\ WatermarkOf(triggerOn, workflowStaticData) = lastPoll.seen
    /\ firstWatermark = lastPoll.seen

\* C6: no step lowers a numeric watermark of the cursor store.
C6_WatermarksMonotonic ==
    [][ \A k \in WatermarkKeys :
          IsDefined(workflowStaticData[k])
            => /\ IsDefined(workflowStaticData'[k])
               /\ ValueOf(workflowStaticData'[k]) >= ValueOf(workflowStaticData[k]) ]_vars

\* C7: whenever the latch batch_executed_N is set, the blockFinalized event of batch N
\* has been returned to the host by an invocation that completed.
C7_LatchMeansDelivered ==
    triggerOn = "blockFinalized"
      => \A n \in workflowStaticData.batch_executed : emitCount[n] >= 1

\* What item number k (from 1) of the latest execute call does, by its inputs alone.
RunOf(k) ==
    RunItem(lastExecute.items[k],
            [ network |-> lastExecute.network, customRpcUrl |-> lastExecute.customRpcUrl,
              privateKey |-> lastExecute.privateKey ],
            FaultOf(k, lastExecute.faultAt, lastExecute.faultStage))
FailingItems == {k \in 1..Len(lastExecute.items) : IsDefined(RunOf(k).error)}
FirstFailing == CHOOSE k \in FailingItems : \A j \in FailingItems : k <= j

\* Output item k is the result of input item k, or its error paired with index k - 1.
OutputMatches(k) ==
    LET out == lastExecute.returnData[k] IN
    IF k \in FailingItems
    THEN out = [error |-> RunOf(k).error, result |-> Undefined, pairedItem |-> Some(k - 1)]
    ELSE out = [error |-> Undefined, result |-> Some(lastExecute.items[k].operation),
                pairedItem |-> Undefined]

\* C8: with continue-on-failure, execute over n items returns exactly n output items
\* in input order, a failed item i giving an error item paired with index i, and
\* every item is processed; without it, the first failing item makes execute throw,
\* nothing is returned and no later item is processed (with no failing item the n
\* results are returned).
C8_PerItemFailureHandling ==
    lastExecute.phase = "done"
      => LET n == Len(lastExecute.items) IN
         IF lastExecute.continueOnFail \/ FailingItems = {}
         THEN /\ ~lastExecute.threw
              /\ Len(lastExecute.returnData) = n
              /\ Len(lastExecute.runs) = n
              /\ \A k \in 1..n : OutputMatches(k)
         ELSE /\ lastExecute.threw
              /\ lastExecute.returnData = <<>>
              /\ Len(lastExecute.runs) = FirstFailing

\* A call with continue-on-failure whose first item failed and whose last item
\* succeeded: both are in the output, the error paired with index 0.
C8_Witness ==
    /\ lastExecute.phase = "done"
    /\ lastExecute.continueOnFail
    /\ Len(lastExecute.items) >= 2
    /\ 1 \in FailingItems
    /\ Len(lastExecute.items) \notin FailingItems
    /\ lastExecute.returnData[1].pairedItem = Some(0)
    /\ IsDefined(lastExecute.returnData[Len(lastExecute.items)].result)

\* C9: an item that fails with an invalid-address error has issued no provider
\* request before the error was raised.
C9_InvalidAddressBeforeAnyRpc ==
    lastExecute.phase = "done"
      => \A k \in 1..Len(lastExecute.runs) :
            (/\ IsDefined(lastExecute.runs[k].error)
             /\ ValueOf(lastExecute.runs[k].error) \in InvalidAddressMessages)
              => lastExecute.runs[k].calls = <<>>

\* C10: with no private key configured, every processed item of an operation that
\* needs a signing key fails with the 'Private key is required' error of its
\* operation, is run once, submits no transaction and produces no signature.
C10_MissingKeyFailsWithItsError ==
    (lastExecute.phase = "done" /\ lastExecute.privateKey = "")
      => /\ Len(lastExecute.runs) <= Len(lastExecute.items)
         /\ \A k \in 1..Len(lastExecute.runs) :
              lastExecute.items[k].operation \in SigningOperations
                => /\ lastExecute.runs[k].error
                        = Some(PrivateKeyRequired(lastExecute.items[k].operation))
                   /\ ~lastExecute.runs[k].sent
                   /\ ~lastExecute.runs[k].signed

\* -------------------------------------------------- claims: the unit converter
\* The amount, and the units, of the convertUnits call in progress.
AmountOf == lastUtility.args.value
FromUnitOf == lastUtility.args.fromUnit
ToUnitOf == lastUtility.args.toUnit

\* A valid amount of a unit: non-negative, and convertUnits reads it in that unit.
ValidAmount(a, unit) == a[1] # "-" /\ ~parseUnits(a, UNIT_DECIMALS[unit]).threw

\* The written form of a non-negative amount that has no second spelling: no leading
\* zeros, no point for wei, and otherwise one point followed by a fraction without
\* trailing zeros that is one digit long at least.
CanonicalAmount(a, unit) ==
    LET points == {i \in 1..Len(a) : a[i] = "."}
        point == IF points = {} THEN Len(a) + 1 ELSE CHOOSE i \in points : TRUE
        whole == SubSeq(a, 1, point - 1)
        fraction == SubSeq(a, point + 1, Len(a))
    IN  /\ \A i \in 1..Len(a) : a[i] \in Digits \cup {"."}
        /\ whole # <<>> /\ StripLeadingZeros(whole) = whole
        /\ IF UNIT_DECIMALS[unit] = 0 THEN points = {}
           ELSE /\ Cardinality(points) = 1
                /\ Len(fraction) \in 1..UNIT_DECIMALS[unit]
                /\ (Len(fraction) > 1 => fraction[Len(fraction)] # "0")

\* The round trip of a valid amount has returned.
RoundTripDone ==
    /\ lastUtility.fn = "convertUnits"
    /\ IsDefined(lastUtility.back)
    /\ ValidAmount(AmountOf, FromUnitOf)

\* C11 as stated: converting a valid amount A from U to V and back to U returns the
\* very string A.
C11_RoundTripSameString ==
    RoundTripDone =>
        /\ ~ValueOf(lastUtility.back).threw
        /\ ValueOf(lastUtility.back).value = AmountOf

\* C11: converting a valid amount A from U to V and back to U never fails and returns
\* the canonical spelling of the same number in U; it returns the very string A exactly
\* when A is spelled canonically.
C11_RoundTripSameNumber ==
    /\ (lastUtility.fn = "convertUnits" /\ IsDefined(lastUtility.result)
          /\ ValidAmount(AmountOf, FromUnitOf))
        => ~ValueOf(lastUtility.result).threw
    /\ RoundTripDone =>
        LET back == ValueOf(lastUtility.back) IN
        /\ ~back.threw
        /\ CanonicalAmount(back.value, FromUnitOf)
        /\ parseUnits(back.value, UNIT_DECIMALS[FromUnitOf])
             = parseUnits(AmountOf, UNIT_DECIMALS[FromUnitOf])
        /\ (back.value = AmountOf) <=> CanonicalAmount(AmountOf, FromUnitOf)

\* One ether written "1" went to wei and came back as "1.0".
C11_Witness ==
    /\ RoundTripDone
    /\ AmountOf = <<"1">> /\ FromUnitOf = "ether" /\ ToUnitOf = "wei"
    /\ ValueOf(lastUtility.result).value = <<"1">> \o RepeatChar("0", 18)
    /\ ValueOf(lastUtility.back).value = <<"1", ".", "0">>

\* A string of digits only: a non-negative integer, leading zeros allowed.
IsWholeNumber(a) == \A i \in 1..Len(a) : a[i] \in Digits

\* The decimal string of n * 10^k for a non-negative integer n written as digits.
TimesPowerOfTen(n, k) ==
    IF StripLeadingZeros(n) = <<"0">> THEN <<"0">>
    ELSE StripLeadingZeros(n) \o RepeatChar("0", k)

\* A wei amount that is a whole multiple of one `unit`: it ends in the zeros of the unit.
IsMultipleOf(a, unit) ==
    /\ IsWholeNumber(a) /\ StripLeadingZeros(a) = a
    /\ Len(a) > UNIT_DECIMALS[unit]
    /\ \A i \in (Len(a) - UNIT_DECIMALS[unit] + 1)..Len(a) : a[i] = "0"

\* C12: converting a non-negative integer N of any unit U to wei returns the decimal
\* string of N * 10^scale(U) with no decimal point; converting a wei amount that is a
\* whole multiple of 10^scale(V) to a unit V of positive scale returns the quotient
\* followed by ".0".
C12_ExactPowersOfTen ==
    (lastUtility.fn = "convertUnits" /\ IsDefined(lastUtility.result)) =>
        LET result == ValueOf(lastUtility.result) IN
        /\ (IsWholeNumber(AmountOf) /\ ToUnitOf = "wei") =>
              /\ ~result.threw
              /\ result.value = TimesPowerOfTen(AmountOf, UNIT_DECIMALS[FromUnitOf])
              /\ \A i \in 1..Len(result.value) : result.value[i] # "."
        /\ (FromUnitOf = "wei" /\ UNIT_DECIMALS[ToUnitOf] > 0
              /\ IsMultipleOf(AmountOf, ToUnitOf)) =>
              /\ ~result.threw
              /\ result.value =
                   SubSeq(AmountOf, 1, Len(AmountOf) - UNIT_DECIMALS[ToUnitOf])
                     \o <<".", "0">>

\* 15 followed by eighteen zeros, in wei, was converted to ether and came out as "15.0".
C12_Witness ==
    /\ lastUtility.fn = "convertUnits" /\ IsDefined(lastUtility.result)
    /\ ~IsDefined(lastUtility.back)
    /\ AmountOf = <<"1", "5">> \o RepeatChar("0", 18)
    /\ FromUnitOf = "wei" /\ ToUnitOf = "ether"
    /\ ValueOf(lastUtility.result).value = <<"1", "5", ".", "0">>

\* C13: calculateTxCost fails when gasUsed or gasPrice is negative and never returns
\* a negative cost; for non-negative inputs the returned wei field is the decimal
\* string of gasUsed * gasPrice.
C13_NegativeQuantityRejected ==
    (lastUtility.fn = "calculateTxCost" /\ IsDefined(lastUtility.result)) =>
        LET result == ValueOf(lastUtility.result)
            gasUsed == lastUtility.args.gasUsed
            gasPrice == lastUtility.args.gasPrice
        IN  /\ (gasUsed < 0 \/ gasPrice < 0) => result.threw
            /\ ~result.threw => result.value.wei[1] # "-"
            /\ (gasUsed >= 0 /\ gasPrice >= 0) =>
                  /\ ~result.threw
                  /\ result.value.wei = NatDigits(gasUsed * gasPrice)

\* -------------------------------------------- claims: network configuration
\* C14: getNetworkConfig maps mainnet to chain 324 at https://mainnet.era.zksync.io,
\* sepolia to chain 300 at https://sepolia.era.zksync.dev with a testnet paymaster, and
\* custom with a non-empty URL to the config named "Custom Network" with that URL as
\* rpcUrl, chain ID 0 and empty explorer, L1 and bridge fields.
C14_NetworkConfigs ==
    (lastUtility.fn = "getNetworkConfig" /\ IsDefined(lastUtility.result)) =>
        LET config == ValueOf(lastUtility.result).value
            network == lastUtility.args.network
            url == lastUtility.args.customRpcUrl
        IN  /\ ~ValueOf(lastUtility.result).threw
            /\ network = "mainnet" =>
                  config.chainId = 324 /\ config.rpcUrl = "https://mainnet.era.zksync.io"
            /\ network = "sepolia" =>
                  /\ config.chainId = 300
                  /\ config.rpcUrl = "https://sepolia.era.zksync.dev"
                  /\ IsDefined(config.testnetPaymaster)
            /\ (network = "custom" /\ IsDefined(url) /\ ValueOf(url) # "") =>
                  /\ config.name = "Custom Network"
                  /\ config.rpcUrl = ValueOf(url)
                  /\ config.chainId = 0
                  /\ config.explorerUrl = "" /\ config.explorerApiUrl = ""
                  /\ config.l1ChainId = 0 /\ config.l1RpcUrl = ""
                  /\ config.bridgeAddress = ""

\* A custom network was configured with the URL of a local node.
C14_Witness ==
    /\ lastUtility.fn = "getNetworkConfig" /\ IsDefined(lastUtility.result)
    /\ lastUtility.args.network = "custom"
    /\ lastUtility.args.customRpcUrl = Some("http://localhost:3050")
    /\ ValueOf(lastUtility.result).value.rpcUrl = "http://localhost:3050"
    /\ ValueOf(lastUtility.result).value.name = "Custom Network"

\* ----------------------------------------------- claims: the transfer scans
\* The Transfer logs of blocks first..last whose decoded from or to is the filter
\* address (every log when the filter is empty), in the provider's order.
MatchesFilter(entry, filterAddress) ==
    \/ filterAddress = ""
    \/ toLowerCase(entry.log.topics[2].digits) = toLowerCase(filterAddress)
    \/ toLowerCase(entry.log.topics[3].digits) = toLowerCase(filterAddress)

RECURSIVE KeepMatching(_, _)
KeepMatching(entries, filterAddress) ==
    IF entries = <<>> THEN <<>>
    ELSE IF MatchesFilter(Head(entries), filterAddress)
         THEN <<Head(entries)>> \o KeepMatching(Tail(entries), filterAddress)
         ELSE KeepMatching(Tail(entries), filterAddress)

\* The tokenTransfer event of a log: its from, to, value and block number.
TokenEventOf(entry) ==
    [ type |-> "tokenTransfer", id |-> entry.blockNumber, index |-> entry.index,
      from |-> entry.log.topics[2].digits, to |-> entry.log.topics[3].digits,
      value |-> ValueOf(entry.log.data) ]

ExpectedTokenEvents(first, last, filterAddress) ==
    LET passed == KeepMatching(GetLogs(chain, first, last), filterAddress) IN
    [i \in 1..Len(passed) |-> TokenEventOf(passed[i])]

\* A tokenTransfer invocation that found a stored watermark below the reported tip
\* and completed.
TokenScanStep ==
    /\ PollStep
    /\ triggerOn = "tokenTransfer"
    /\ IsDefined(workflowStaticData.lastTokenBlock)
    /\ ~lastPoll'.threw
    /\ IsDefined(lastPoll'.seen)
    /\ ValueOf(lastPoll'.seen) > ValueOf(workflowStaticData.lastTokenBlock)

\* C15: a tokenTransfer invocation with stored watermark W and reported tip C > W
\* queries the Transfer logs of blocks W+1..C, returns exactly one tokenTransfer event
\* per returned log that passes the address filter, with that log's from, to, value and
\* block number, and stores C as the watermark.
C15_TokenScanCoversStoredRange ==
    [][ TokenScanStep =>
          LET W == ValueOf(workflowStaticData.lastTokenBlock)
              C == ValueOf(lastPoll'.seen)
          IN  /\ lastPoll'.asked = <<Call("getBlockNumber", 0), Call("getLogs", W + 1)>>
              /\ lastPoll'.returnData
                   = ExpectedTokenEvents(W + 1, C, lastInput'.filterAddress)
              /\ workflowStaticData'.lastTokenBlock = Some(C) ]_vars

\* ------------------------------------------------ claims: balanceChange
\* A balanceChange invocation that completed.
BalanceStep == PollStep /\ triggerOn = "balanceChange" /\ ~lastPoll'.threw

\* C16: a balanceChange invocation returns exactly one event when a snapshot is stored
\* and the current balance differs from it as an integer, and none otherwise; the
\* event's changeWei is current - previous and its direction is "increase" exactly when
\* current > previous; every completed invocation leaves the current balance as the
\* stored snapshot.
C16_BalanceChangeExact ==
    [][ BalanceStep =>
          LET current == lastInput'.currentBalance
              snapshot == workflowStaticData.lastBalance
              differs == IsDefined(snapshot) /\ BigInt(ValueOf(snapshot)) # current
              events == lastPoll'.returnData
          IN  /\ Len(events) = (IF differs THEN 1 ELSE 0)
              /\ differs =>
                    /\ events[1].type = "balanceChange"
                    /\ events[1].changeWei = current - BigInt(ValueOf(snapshot))
                    /\ events[1].direction =
                         (IF current > BigInt(ValueOf(snapshot)) THEN "increase"
                          ELSE "decrease")
              /\ IsDefined(workflowStaticData'.lastBalance)
              /\ BigInt(ValueOf(workflowStaticData'.lastBalance)) = current ]_vars

\* A stored snapshot of 2 was followed by a balance of 0: one "decrease" event of -2.
C16_Witness ==
    /\ triggerOn = "balanceChange"
    /\ lastPoll.n = 2 /\ ~lastPoll.threw
    /\ lastInput.currentBalance = 0
    /\ Len(lastPoll.returnData) = 1
    /\ lastPoll.returnData[1].changeWei = 0 - 2
    /\ lastPoll.returnData[1].direction = "decrease"
    /\ workflowStaticData.lastBalance = Some(toString(0))

\* --------------------------------------------- claims: transactionConfirmed
\* A transactionConfirmed invocation that completed.
ConfirmStep == PollStep /\ triggerOn = "transactionConfirmed" /\ ~lastPoll'.threw

\* C17: a transactionConfirmed invocation returns an event exactly when the hash is not
\* latched, the provider has a receipt with a block number, and
\* currentBlock - receipt.blockNumber + 1 is at least the required confirmations; it
\* returns none below that threshold, and the latch of the hash is set in the returning
\* invocation and in no other.
C17_ConfirmedAtThreshold ==
    [][ ConfirmStep =>
          LET input == lastInput'
              latched == input.txHash \in workflowStaticData.tx
              confirmations == input.currentBlock - ValueOf(input.receipt) + 1
              due == /\ ~latched
                     /\ IsDefined(input.receipt)
                     /\ confirmations >= input.requiredConfirmations
              events == lastPoll'.returnData
          IN  /\ Len(events) = (IF due THEN 1 ELSE 0)
              /\ due => /\ events[1].type = "transactionConfirmed"
                        /\ events[1].id = input.txHash
                        /\ events[1].confirmations = confirmations
                        /\ events[1].confirmations >= input.requiredConfirmations
              /\ workflowStaticData'.tx =
                   (IF due THEN workflowStaticData.tx \cup {input.txHash}
                    ELSE workflowStaticData.tx) ]_vars

\* The transaction in block 1 was polled at tip 2 with 2 confirmations required: the
\* event came with the count 2, after an invocation that had returned nothing.
C17_Witness ==
    /\ triggerOn = "transactionConfirmed"
    /\ lastPoll.n = 2 /\ ~lastPoll.threw
    /\ lastInput.receipt = Some(1) /\ lastInput.currentBlock = 2
    /\ lastInput.requiredConfirmations = 2
    /\ Len(lastPoll.returnData) = 1
    /\ lastPoll.returnData[1].confirmations = 2
    /\ workflowStaticData.tx = {lastInput.txHash}

\* ------------------------------------------- claims: ethReceived / ethSent
\* The latest ethReceived / ethSent invocation completed.
EthDone == triggerOn \in EthKinds /\ lastPoll.n > 0 /\ ~lastPoll.threw

\* The watched side of a transaction: `to` for ethReceived (a contract creation has
\* none), `from` for ethSent.
WatchedSide(tx, kind) == IF kind = "ethReceived" THEN tx.to ELSE Some(tx.from)

MatchesWatch(tx, kind, watchAddress) ==
    /\ IsDefined(WatchedSide(tx, kind))
    /\ toLowerCase(ValueOf(WatchedSide(tx, kind))) = toLowerCase(watchAddress)

\* C18: a completed ethReceived / ethSent invocation returns exactly one event for each
\* transaction of the blocks it scanned whose `to` (ethReceived) or `from` (ethSent) is
\* the watched address up to letter case, and no other event; a transaction that
\* matches in the opposite direction only is not returned.
C18_OneEventPerMatchingTransaction ==
    EthDone =>
      LET events == lastPoll.returnData
          asked == lastPoll.asked
          scanned == {asked[k].arg : k \in {j \in 1..Len(asked) :
                                              asked[j].method = "getBlock"}}
          found == scanned \ lastInput.missing
          EventsOf(b, i) == {k \in 1..Len(events) :
                               events[k].id = b /\ events[k].index = i}
      IN  /\ \A b \in found : \A i \in 1..Len(TransactionsOf(chain, b)) :
                Cardinality(EventsOf(b, i)) =
                  (IF MatchesWatch(TransactionsOf(chain, b)[i], triggerOn,
                                   lastInput.watchAddress)
                   THEN 1 ELSE 0)
          /\ \A k \in 1..Len(events) :
                /\ events[k].id \in found
                /\ events[k].index \in 1..Len(TransactionsOf(chain, events[k].id))
                /\ events[k].from = TransactionsOf(chain, events[k].id)[events[k].index].from
                /\ events[k].to = TransactionsOf(chain, events[k].id)[events[k].index].to
                /\ events[k].type = (IF triggerOn = "ethReceived" THEN "received"
                                     ELSE "sent")

\* ethReceived scanned a block holding a contract creation sent by the watched address
\* and a transfer to it: only the transfer, second in the block, was returned.
C18_Witness ==
    /\ triggerOn = "ethReceived"
    /\ lastPoll.n > 0 /\ ~lastPoll.threw
    /\ lastInput.watchAddress = WatchAddress
    /\ chain[1] = <<TxDeploy, TxReceived>>
    /\ Len(lastPoll.returnData) = 1
    /\ lastPoll.returnData[1].id = 1
    /\ lastPoll.returnData[1].index = 2
    /\ lastPoll.returnData[1].to = TxReceived.to

\* The latest tokenTransfer / nftTransfer invocation completed.
TransferDone ==
    triggerOn \in {"tokenTransfer", "nftTransfer"} /\ lastPoll.n > 0 /\ ~lastPoll.threw

\* A log the kind can decode: tokenTransfer reads two address topics and the value in
\* the data, nftTransfer wants the token id as a fourth topic word.
Decodable(kind, log) ==
    IF kind = "tokenTransfer" THEN Len(log.topics) >= 3 /\ IsDefined(log.data)
    ELSE Len(log.topics) >= 4

\* The logs the provider returned to an invocation: those of the blocks from the
\* fromBlock of its getLogs request up to the tip it saw.
LogsReturned(asked, seen) ==
    LET requests == {k \in 1..Len(asked) : asked[k].method = "getLogs"} IN
    IF requests = {} THEN <<>>
    ELSE GetLogs(chain, asked[CHOOSE k \in requests : TRUE].arg, ValueOf(seen))

ContractScanDone ==
    /\ triggerOn = "contractEvent"
    /\ lastPoll.n > 0 /\ ~lastPoll.threw
    /\ \E k \in 1..Len(lastPoll.asked) : lastPoll.asked[k].method = "getLogs"

\* C20: a contractEvent invocation passes over a returned log that fails to decode and
\* does not abort; every other returned log is emitted, in the order returned, and
\* lastEventBlock advances to the tip.
C20_UndecodableLogSkipped ==
    ContractScanDone =>
      LET events == lastPoll.returnData
          logs == LogsReturned(lastPoll.asked, lastPoll.seen)
          decodable == {j \in 1..Len(logs) : ~ParseLogThrows(logs[j].log)}
          Nth(k) == CHOOSE j \in decodable :
                      Cardinality({d \in decodable : d < j}) = k - 1
      IN  /\ Len(events) = Cardinality(decodable)
          /\ \A k \in 1..Len(events) :
                /\ events[k].type = "contractEvent"
                /\ events[k].id = logs[Nth(k)].blockNumber
                /\ events[k].index = logs[Nth(k)].index
          /\ workflowStaticData.lastEventBlock = lastPoll.seen

\* contractEvent scanned a block whose first log has no indexed argument and whose
\* second log decodes: the second log alone was returned and the watermark is the tip.
C20_Witness ==
    /\ triggerOn = "contractEvent"
    /\ lastPoll.n > 0 /\ ~lastPoll.threw
    /\ lastInput.eventAbi = "event"
    /\ chain[1] = <<LogUnindexed, LogErc20>>
    /\ LogsReturned(lastPoll.asked, lastPoll.seen) = LogsOf(chain, 1)
    /\ Len(lastPoll.returnData) = 1
    /\ lastPoll.returnData[1].index = 2
    /\ workflowStaticData.lastEventBlock = lastPoll.seen

\* ------------------------------------------- claims: the receipt retry helper
\* What the counters of the retry helper may be at any moment, and what they are once
\* it has returned.
RetryBounded ==
    /\ retry.lookups <= retry.maxRetries
    /\ retry.waits <= retry.lookups
    /\ retry.maxRetries > 0 => retry.waits <= retry.maxRetries - 1
    /\ retry.pc = "wait" => retry.lookups < retry.maxRetries
    /\ retry.pc = "done" =>
          /\ retry.outcome \in {"receipt", "threw", "null"}
          /\ retry.outcome \in {"receipt", "threw"} =>
                retry.lookups >= 1 /\ retry.waits = retry.lookups - 1
          /\ retry.outcome = "receipt" <=> IsDefined(retry.receipt)
          /\ retry.outcome = "null" =>
                /\ retry.lookups = retry.maxRetries
                /\ retry.waits = (IF retry.maxRetries > 0 THEN retry.maxRetries - 1 ELSE 0)

\* C21: the retry helper always returns; it makes at most maxRetries lookups, returns
\* the first receipt without a further lookup, returns null after maxRetries empty
\* lookups, waits only between two attempts (never after the last one), and a lookup
\* that throws ends the call at once.
C21_RetryHelperTerminates == [](RetryBounded) /\ <>(retry.pc = "done")

\* Three empty lookups with two waits in between, then null.
C21_Witness ==
    /\ retry.pc = "done" /\ retry.outcome = "null"
    /\ retry.maxRetries = 3 /\ retry.lookups = 3 /\ retry.waits = 2

\* ---------------------------------------------- claims: the licensing notice
\* The notice was printed once, by the first call, if any call was made.
NoticeOnce ==
    /\ noticesLogged = (IF Len(clientCalls) > 0 THEN 1 ELSE 0)
    /\ licensingNoticeLogged <=> Len(clientCalls) > 0
    /\ \A c \in 1..Len(clientCalls) : clientCalls[c].printed <=> c = 1

\* C22: over any number of createZkSyncClient calls of one process, calls whose
\* awaits interleave and calls that fail included, the licensing notice is printed
\* exactly once, by the first call, and the flag never returns to false.
C22_NoticeLoggedOnce ==
    [](NoticeOnce) /\ [][licensingNoticeLogged => licensingNoticeLogged']_vars

\* Three calls were made; the first one failed, the third returned before the second.
C22_Witness ==
    /\ Len(clientCalls) = 3
    /\ clientCalls[1].pc = "threw"
    /\ clientCalls[2].pc = "getNetwork"
    /\ clientCalls[3].pc = "returned"
    /\ noticesLogged = 1


\* ------------------------------------------------- claims: event ordering
\* The kinds whose events carry the number of the block or batch they come from.
OrderedKinds == {"newBlock", "newL1Batch", "blockFinalized"} \cup EthKinds

\* The events of one invocation come in ascending block / batch number.
AscendingWithinInvocation ==
    triggerOn \in OrderedKinds
      => \A i, j \in 1..Len(lastPoll.returnData) :
            i < j => lastPoll.returnData[i].id <= lastPoll.returnData[j].id

\* A completed invocation returns only numbers above every number that an earlier
\* completed invocation returned.
AboveEarlierInvocations ==
    (triggerOn \in {"newBlock", "newL1Batch"} /\ ~lastPoll'.threw)
      => \A i \in 1..Len(lastPoll'.returnData) :
            \A n \in Batches : emitCount[n] > 0 => lastPoll'.returnData[i].id > n

\* C23: within one invocation of newBlock, newL1Batch, ethReceived / ethSent or
\* blockFinalized the events are in ascending block / batch number, and for newBlock
\* and newL1Batch every event of a later completed invocation has a number strictly
\* greater than every event of an earlier completed invocation.
C23_EventOrdering == [](AscendingWithinInvocation) /\ [][AboveEarlierInvocations]_vars


\* ------------------------------------------- claims: blockFinalized seeding
\* The batch numbers an invocation asked the provider about, in the order asked.
RECURSIVE BatchesExamined(_)
BatchesExamined(asked) ==
    IF asked = <<>> THEN <<>>
    ELSE IF Head(asked).method = "getL1BatchDetails"
         THEN <<Head(asked).arg>> \o BatchesExamined(Tail(asked))
         ELSE BatchesExamined(Tail(asked))

\* The provider answered every request of the invocation that just ran.
ProviderAnswered == lastInput'.kind = "blockFinalized" /\ lastInput'.fault = "none"

\* The first invocation: empty store, tip T reported.
SeedsTenBehind ==
    (lastPoll.n = 0 /\ workflowStaticData = EmptyStaticData /\ ProviderAnswered)
      => LET T == ValueOf(lastPoll'.seen) IN
         /\ BatchesExamined(lastPoll'.asked) = [i \in 1..SeedBacklog |-> T - SeedBacklog + i]
         /\ workflowStaticData'.lastFinalizedBatch = Some(T)

\* A later invocation: a watermark is stored.
ExaminesAboveWatermark ==
    (triggerOn = "blockFinalized" /\ UNCHANGED <<verifiedUpTo, executedUpTo>>
       /\ IsDefined(workflowStaticData.lastFinalizedBatch))
      => LET examined == BatchesExamined(lastPoll'.asked) IN
         \A i \in 1..Len(examined) :
            examined[i] > ValueOf(workflowStaticData.lastFinalizedBatch)

\* C24: the first blockFinalized invocation on an empty cursor store that is told the
\* tip T examines exactly the ten batches T-9..T and stores lastFinalizedBatch = T;
\* a later invocation examines only batches above the stored watermark.
C24_SeedsTenBatchesBehind == [][SeedsTenBehind /\ ExaminesAboveWatermark]_vars


\* ------------------------------------------ claims: blockFinalized liveness
\* The latest invocation completed and looked batch b up.
Examined(b) ==
    /\ triggerOn = "blockFinalized" /\ ~lastPoll.threw
    /\ \E i \in 1..Len(lastPoll.asked) : lastPoll.asked[i] = Call("getL1BatchDetails", b)

\* The provider reports batch b as verified, with an execute-transaction hash.
Finalized(b) == b <= verifiedUpTo /\ b <= executedUpTo

\* A completed invocation has returned the blockFinalized event of batch b.
Reported(b) == emitCount[b] > 0

\* C25: while polling goes on and no invocation fails (the provider answers every
\* request and never reports a lower tip), every batch that an invocation examined
\* and that is verified with an execute-transaction hash from some time on is
\* eventually reported by a blockFinalized event.
C25_FinalizedBatchReported ==
    [](steady) => \A b \in RecentBatches : [](Examined(b) => [](Finalized(b) => <>Reported(b)))


\* --------------------------------------- claims: no negative block number
\* The requests that name a block or a batch: getBlock(n), getL1BatchDetails(n) and
\* getLogs({fromBlock: n, ...}).
NumberedMethods == {"getBlock", "getL1BatchDetails", "getLogs"}

\* C26: no invocation of any trigger kind, whatever the tip and the cursor store,
\* passes a negative number to getBlock or getL1BatchDetails or as the fromBlock of a
\* log query.
C26_NoNegativeNumberAsked ==
    \A i \in 1..Len(lastPoll.asked) :
        lastPoll.asked[i].method \in NumberedMethods => lastPoll.asked[i].arg >= 0


\* -------------------------------------------- claims: tokenTransfer progress
\* The provider answered the latest tokenTransfer invocation, and the logs it returned
\* hold one that tokenTransfer cannot decode.
HitUndecodable ==
    /\ triggerOn = "tokenTransfer" /\ lastInput.kind = "tokenTransfer"
    /\ lastInput.fault = "none"
    /\ LET returned == LogsReturned(lastPoll.asked, lastPoll.seen) IN
       \E i \in 1..Len(returned) : ~Decodable("tokenTransfer", returned[i].log)

\* The stored watermark has reached every block that holds an undecodable log.
PastUndecodable ==
    /\ IsDefined(workflowStaticData.lastTokenBlock)
    /\ \A n \in ContentBlocks :
          (\E i \in 1..Len(chain[n]) : ~Decodable("tokenTransfer", chain[n][i]))
             => ValueOf(workflowStaticData.lastTokenBlock) >= n

\* The provider answers every request of every tokenTransfer invocation and never
\* reports a tip below the one a completed invocation saw.
AnsweredInOrder ==
    lastInput.kind = "tokenTransfer"
      => /\ lastInput.fault = "none"
         /\ IsDefined(lastPoll.prevSeen) => ValueOf(lastPoll.prevSeen) <= ValueOf(lastPoll.seen)

AlwaysAnswered == [](AnsweredInOrder)

\* C27: while polling goes on and the provider answers, a tokenTransfer invocation
\* whose scanned range holds a Transfer-topic log that is no ERC-20 transfer (fewer
\* than 3 topic words, or empty data) completes, and the watermark lastTokenBlock
\* eventually reaches that log's block.
C27_UndecodableLogDoesNotBlock ==
    AlwaysAnswered => [](HitUndecodable => (~lastPoll.threw /\ <>PastUndecodable))


\* ------------------------------------------------ claims: sendEth and the paymaster
\* C28: every transaction that sendEth submits for an item with 'Use Paymaster'
\* enabled carries paymaster params in its custom data, whatever the network of the
\* credentials (mainnet, sepolia, custom).
C28_PaymasterAlwaysAttached ==
    lastExecute.phase = "done"
      => \A k \in 1..Len(lastExecute.runs) :
            (/\ lastExecute.items[k].operation = "transaction.sendEth"
             /\ lastExecute.items[k].usePaymaster
             /\ lastExecute.runs[k].sent)
              => IsDefined(lastExecute.runs[k].paymasterParams)


\* ------------------------------------- claims: the custom network selection
\* C29: getNetworkConfig returns a config for every network string and optional URL;
\* for network 'custom' the rpcUrl of the config is the URL the caller supplied, and
\* the mainnet endpoint is returned for no selection other than 'mainnet' (or a
\* custom URL that names it).
C29_CustomNeverRoutedToMainnet ==
    (lastUtility.fn = "getNetworkConfig" /\ IsDefined(lastUtility.result)) =>
        LET config == ValueOf(lastUtility.result).value
            network == lastUtility.args.network
            url == lastUtility.args.customRpcUrl
        IN  /\ ~ValueOf(lastUtility.result).threw
            /\ network = "custom" => (IsDefined(url) /\ config.rpcUrl = ValueOf(url))
            /\ (network # "custom" /\ config.rpcUrl = NETWORKS["mainnet"].rpcUrl)
                  => network = "mainnet"


\* ------------------------------------------- claims: the balanceChange chain
\* C30: over any sequence of invocations the previousBalanceWei of every returned
\* balanceChange event is the currentBalanceWei of the event returned before it (the
\* first stored snapshot for the first event), and the changeWei of all returned events
\* add up to the stored snapshot minus the first snapshot.
C30_BalanceEventsChain ==
    (triggerOn = "balanceChange" /\ IsDefined(balanceTrail.first))
      => /\ balanceTrail.chained
         /\ IsDefined(workflowStaticData.lastBalance)
         /\ balanceTrail.sum = BigInt(ValueOf(workflowStaticData.lastBalance))
                                 - BigInt(ValueOf(balanceTrail.first))

\* Two events in a row: from the first snapshot 0 the balance went up to 2, then
\* down to 1.
C30_Witness ==
    /\ triggerOn = "balanceChange"
    /\ balanceTrail.first = Some(toString(0))
    /\ balanceTrail.latest = Some(toString(1))
    /\ balanceTrail.sum = 1
    /\ workflowStaticData.lastBalance = Some(toString(1))
    /\ lastPoll.n = 2 /\ ~lastPoll.threw
    /\ Len(lastPoll.returnData) = 1
    /\ lastPoll.returnData[1].previousBalanceWei = toString(2)
    /\ lastPoll.returnData[1].changeWei = 0 - 1

=============================================================================
